---------------------------- MODULE Spec2Model ----------------------------
(***************************************************************************)
(* Hybrid GA + SA timetable optimizer of WebApplication/app.py:            *)
(* TimetableGA (problem model, chromosome factory), ConstraintChecker,     *)
(* GeneticAlgorithm, SimulatedAnnealing and the TimetableOptimizer facade. *)
(*                                                                         *)
(* Units.  Fitness values and soft penalties are real numbers in the code; *)
(* here they are integers counting FitDen-ths (np.var of at most four      *)
(* day counts has a denominator dividing FitDen).  Temperatures            *)
(* and probabilities are integers counting thousandths.                    *)
(***************************************************************************)
EXTENDS Integers, Sequences, FiniteSets, TLC

VARIABLES
    data,               \* the four input tables handed to TimetableOptimizer
    ga_params,          \* population_size, generations, crossover_rate, mutation_rate, elitism
    sa_params,          \* initial_temp, cooling_rate, iterations
    soft_weights,       \* ConstraintChecker.soft_weights: gaps, time_penalties, load_balance
    random_seed,        \* the random_seed argument
    rng,                \* state of the global generator of module random
    phase,              \* position of the run: new, ready, ga, ga_done, sa, done, error
    error,              \* the exception that ended the run, "" when none
    sessions,           \* TimetableGA.sessions
    rooms,              \* TimetableGA.rooms
    slots,              \* TimetableGA.slots
    group_size_map,     \* TimetableGA.group_size_map
    population,         \* evolve: population
    gen,                \* evolve: the loop variable (next generation to evaluate)
    ga_stopped,         \* evolve: the loop was left by the early-stopping break
    best_ever,          \* evolve: best_ever, optional
    best_fitness_ever,  \* evolve: best_fitness_ever
    ga_history,         \* evolve: history, then TimetableOptimizer.ga_history
    ga_solution,        \* run_full_optimization: ga_solution
    initial_fitness,    \* TimetableOptimizer.initial_fitness
    current,            \* optimize: current
    current_fitness,    \* optimize: current_fitness
    best,               \* optimize: best
    best_fitness,       \* optimize: best_fitness
    temperature,        \* optimize: temperature
    batch_i,            \* optimize: moves made in the running batch (the for loop's counter)
    total_iterations,   \* optimize: total_iterations
    max_iterations_estimate, \* optimize: max_iterations_estimate
    sa_history,         \* optimize: history, then TimetableOptimizer.sa_history
    best_solution,      \* TimetableOptimizer.best_solution
    final_fitness,      \* TimetableOptimizer.final_fitness
    ga_cb_log,          \* calls received by ga_progress_callback, in order
    sa_cb_log,          \* calls received by sa_progress_callback, in order
    eval_chromosome,    \* a chromosome handed to the evaluator on its own
    eval_result,        \* what calculate_fitness returned for eval_chromosome
    eval_analysis,      \* what get_detailed_analysis returned for eval_chromosome
    op_call,            \* a genetic operator called on its own: its name and arguments
    op_result,          \* what that call returned
    metrics,            \* what a call of get_metrics returned, <<>> until it is called
    first_run           \* results of the first of two runs, <<>> until one has finished

vars == <<data, ga_params, sa_params, soft_weights, random_seed, rng, phase, error,
          sessions, rooms, slots, group_size_map,
          population, gen, ga_stopped, best_ever, best_fitness_ever, ga_history,
          ga_solution, initial_fitness,
          current, current_fitness, best, best_fitness, temperature, batch_i,
          total_iterations, max_iterations_estimate, sa_history,
          best_solution, final_fitness, ga_cb_log, sa_cb_log,
          eval_chromosome, eval_result, eval_analysis, op_call, op_result, metrics,
          first_run>>

-----------------------------------------------------------------------------
(* Program constants *)

HARD_WEIGHT == 1000000
SOFT_WEIGHT == 1
DefaultGroupSize == 30
LargeGroup == 100
GapModulus == 5
TournamentSize == 5
StopTemp == 100          \* 0.1, in thousandths
TempFloor == 1           \* 0.001, in thousandths
DayNames == <<"LUNDI", "MARDI", "MERCREDI", "JEUDI", "VENDREDI", "SAMEDI">>

\* Soft penalties are counted in FitDen-ths: the variance of n day counts has
\* denominator n*n, and n*n divides FitDen for n = 1, 2, 3, 6; four distinct days
\* need five sessions to give a non-zero variance, above the sizes modelled.
FitDen == 4 * 9

\* Optional values: None is the empty tuple, a value v is <<v>>
None == <<>>
Some(v) == <<v>>
Get(o) == o[1]
Infinity == 2000000000   \* float('inf'): above every fitness the model can reach

-----------------------------------------------------------------------------
(* Helpers *)

Max(a, b) == IF a >= b THEN a ELSE b
Min(a, b) == IF a <= b THEN a ELSE b

RECURSIVE SumOf(_, _)
SumOf(f, S) ==
    IF S = {} THEN 0
    ELSE LET x == CHOOSE y \in S : TRUE IN f[x] + SumOf(f, S \ {x})

RECURSIVE SumSeq(_)
SumSeq(s) == IF s = <<>> THEN 0 ELSE Head(s) + SumSeq(Tail(s))

SeqMin(s) == CHOOSE m \in {s[i] : i \in DOMAIN s} : \A i \in DOMAIN s : m <= s[i]
SeqMax(s) == CHOOSE m \in {s[i] : i \in DOMAIN s} : \A i \in DOMAIN s : m >= s[i]

\* list.index(min(list)): the first position holding the minimum
IndexOfMin(s) == CHOOSE i \in DOMAIN s : s[i] = SeqMin(s) /\ \A j \in 1..(i - 1) : s[j] # s[i]

\* the list a comprehension builds: every element is computed once, when the list is built
List(f) == SubSeq(f, 1, Len(f))

RECURSIVE SortSet(_)
SortSet(S) ==
    IF S = {} THEN <<>>
    ELSE LET m == CHOOSE x \in S : \A y \in S : x <= y IN <<m>> \o SortSet(S \ {m})

-----------------------------------------------------------------------------
(* TimetableOptimizer._preprocess_data *)

\* sorted(self.slot_penalties_df['start_time'].unique())
TimeSlots(slot_penalties) ==
    SortSet({slot_penalties[i].start_time : i \in DOMAIN slot_penalties})

\* penalty_rows['penalty'].values[0]: the first row with that start time
PenaltyOf(slot_penalties, t) ==
    LET i == CHOOSE j \in DOMAIN slot_penalties :
                 /\ slot_penalties[j].start_time = t
                 /\ \A k \in 1..(j - 1) : slot_penalties[k].start_time # t
    IN slot_penalties[i].penalty

\* slot_list: days x distinct start times, slot_id counted from 1
BuildSlots(slot_penalties) ==
    LET ts == TimeSlots(slot_penalties)
        n  == Len(ts)
    IN List([k \in 1..(Len(DayNames) * n) |->
                [slot_id    |-> k,
                 day        |-> ((k - 1) \div n) + 1,
                 day_name   |-> DayNames[((k - 1) \div n) + 1],
                 start_time |-> ts[((k - 1) % n) + 1],
                 penalty    |-> PenaltyOf(slot_penalties, ts[((k - 1) % n) + 1])]])

\* groups of one assignment row: involved_groups split on ';', ['Unknown'] when empty
RowGroups(row) == IF row.involved_groups = <<>> THEN <<"Unknown">> ELSE row.involved_groups

RECURSIVE ExtendSessions(_, _, _)
ExtendSessions(session_list, row, groups) ==
    IF groups = <<>> THEN session_list
    ELSE ExtendSessions(
             Append(session_list,
                    [session_id   |-> Len(session_list),
                     session_type |-> row.session_type,
                     teacher_id   |-> row.teacher_id,
                     group_name   |-> Head(groups)]),
             row, Tail(groups))

RECURSIVE ExtractFrom(_, _)
ExtractFrom(session_list, assignments) ==
    IF assignments = <<>> THEN session_list
    ELSE ExtractFrom(ExtendSessions(session_list, Head(assignments), RowGroups(Head(assignments))),
                     Tail(assignments))

\* session_list: one session per (assignment row, involved group)
ExtractSessions(assignments) == ExtractFrom(<<>>, assignments)

\* dict(zip(groups_df['group_name'], groups_df['size'])): the last row of a name wins
BuildGroupSizeMap(groups) ==
    [g \in {groups[i].group_name : i \in DOMAIN groups} |->
        groups[CHOOSE i \in DOMAIN groups :
                   /\ groups[i].group_name = g
                   /\ \A j \in (i + 1)..Len(groups) : groups[j].group_name # g].size]

-----------------------------------------------------------------------------
(* TimetableGA: lookups *)

room_ids == List([i \in DOMAIN rooms |-> rooms[i].room_id])
slot_ids == List([i \in DOMAIN slots |-> slots[i].slot_id])

\* room_dict[room]: the last room carrying the id
RoomById(room) ==
    rooms[CHOOSE i \in DOMAIN rooms :
              /\ rooms[i].room_id = room
              /\ \A j \in (i + 1)..Len(rooms) : rooms[j].room_id # room]

\* slot_dict[slot]
SlotById(slot) == slots[CHOOSE i \in DOMAIN slots : slots[i].slot_id = slot]

\* group_size_map.get(group_name, 30)
GroupSize(group_name) ==
    IF group_name \in DOMAIN group_size_map THEN group_size_map[group_name]
    ELSE DefaultGroupSize

\* truthiness of an optional teacher_id / group_name
Present(x) == x # ""

-----------------------------------------------------------------------------
(* ConstraintChecker *)

\* sum over the buckets of a defaultdict(list) of (count - 1) where count > 1
Conflicts(buckets) ==
    SumOf([k \in DOMAIN buckets |->
              IF Cardinality(buckets[k]) > 1 THEN Cardinality(buckets[k]) - 1 ELSE 0],
          DOMAIN buckets)

\* H1
check_teacher_conflicts(chromosome) ==
    LET idx  == {i \in DOMAIN chromosome : Present(sessions[i].teacher_id)}
        keys == {<<sessions[i].teacher_id, chromosome[i][1]>> : i \in idx}
        B(k) == {i \in idx : <<sessions[i].teacher_id, chromosome[i][1]>> = k}
    IN Conflicts([k \in keys |-> B(k)])

\* H2
check_room_conflicts(chromosome) ==
    LET keys == {chromosome[i] : i \in DOMAIN chromosome}
        B(k) == {i \in DOMAIN chromosome : chromosome[i] = k}
    IN Conflicts([k \in keys |-> B(k)])

\* H3
check_group_conflicts(chromosome) ==
    LET idx  == {i \in DOMAIN chromosome : Present(sessions[i].group_name)}
        keys == {<<chromosome[i][1], sessions[i].group_name>> : i \in idx}
        B(k) == {i \in idx : <<chromosome[i][1], sessions[i].group_name>> = k}
    IN Conflicts([k \in keys |-> B(k)])

\* H4
check_capacity_violations(chromosome) ==
    Cardinality({i \in DOMAIN chromosome :
                    GroupSize(sessions[i].group_name) > RoomById(chromosome[i][2]).capacity})

\* H5 applied to the sessions of every type
check_room_type_violations_any_type(chromosome) ==
    Cardinality({i \in DOMAIN chromosome :
                    /\ GroupSize(sessions[i].group_name) > LargeGroup
                    /\ RoomById(chromosome[i][2]).type # "Amphitheater"})

\* H5
check_room_type_violations(chromosome) ==
    Cardinality({i \in DOMAIN chromosome :
                    /\ sessions[i].session_type = "Cours"
                    /\ GroupSize(sessions[i].group_name) > LargeGroup
                    /\ RoomById(chromosome[i][2]).type # "Amphitheater"})

\* time_idx = slot_dict[slot]['slot_id'] % 5
TimeIdx(slot) == SlotById(slot).slot_id % GapModulus

\* gaps of one schedule: entity -> day -> list of time_idx
ScheduleGaps(chromosome, entity) ==
    LET keys == {<<entity[i], SlotById(chromosome[i][1]).day_name>> : i \in DOMAIN chromosome}
        B(k) == {i \in DOMAIN chromosome :
                    <<entity[i], SlotById(chromosome[i][1]).day_name>> = k}
        Times(k) == {TimeIdx(chromosome[i][1]) : i \in B(k)}
        Gap(k) == IF Cardinality(B(k)) > 1
                  THEN (SeqMax(SortSet(Times(k))) - SeqMin(SortSet(Times(k))) + 1)
                       - Cardinality(B(k))
                  ELSE 0
    IN SumOf([k \in keys |-> Gap(k)], keys)

\* S1
calculate_schedule_gaps(chromosome) ==
    LET groups   == [i \in DOMAIN chromosome |-> sessions[i].group_name]
        teachers == [i \in DOMAIN chromosome |-> sessions[i].teacher_id]
    IN ScheduleGaps(chromosome, groups) + ScheduleGaps(chromosome, teachers)

\* S2
calculate_time_penalties(chromosome) ==
    SumSeq([i \in DOMAIN chromosome |-> SlotById(chromosome[i][1]).penalty])

\* np.var(counts), in FitDen-ths: (n * sum(x^2) - sum(x)^2) / n^2
Variance(counts) ==
    LET n  == Len(counts)
        s1 == SumSeq(counts)
        s2 == SumSeq([i \in DOMAIN counts |-> counts[i] * counts[i]])
    IN ((n * s2 - s1 * s1) * FitDen) \div (n * n)

\* S3, in FitDen-ths
calculate_load_balance(chromosome) ==
    LET days   == {SlotById(chromosome[i][1]).day_name : i \in DOMAIN chromosome}
        ds     == SortSet({CHOOSE j \in DOMAIN DayNames : DayNames[j] = d : d \in days})
        counts == [k \in DOMAIN ds |->
                      Cardinality({i \in DOMAIN chromosome :
                                      SlotById(chromosome[i][1]).day_name = DayNames[ds[k]]})]
    IN IF Len(counts) > 1 THEN Variance(counts) ELSE 0

\* soft_weights.get(name, 1.0)
SoftWeight(name) == IF name \in DOMAIN soft_weights THEN soft_weights[name] ELSE 1

\* calculate_fitness without the room-type rule in total_hard
calculate_fitness_without_h5(chromosome) ==
    LET total_hard == check_teacher_conflicts(chromosome) + check_room_conflicts(chromosome)
                      + check_group_conflicts(chromosome)
                      + check_capacity_violations(chromosome)
        s1 == calculate_schedule_gaps(chromosome) * SoftWeight("gaps") * FitDen
        s2 == calculate_time_penalties(chromosome) * SoftWeight("time_penalties") * FitDen
        s3 == calculate_load_balance(chromosome) * SoftWeight("load_balance")
    IN <<HARD_WEIGHT * total_hard * FitDen + SOFT_WEIGHT * (s1 + s2 + s3), total_hard,
         s1 + s2 + s3>>

\* (fitness, total_hard, total_soft); fitness and total_soft in FitDen-ths
calculate_fitness(chromosome) ==
    LET h1 == check_teacher_conflicts(chromosome)
        h2 == check_room_conflicts(chromosome)
        h3 == check_group_conflicts(chromosome)
        h4 == check_capacity_violations(chromosome)
        h5 == check_room_type_violations(chromosome)
        total_hard == h1 + h2 + h3 + h4 + h5
        s1 == calculate_schedule_gaps(chromosome) * SoftWeight("gaps") * FitDen
        s2 == calculate_time_penalties(chromosome) * SoftWeight("time_penalties") * FitDen
        s3 == calculate_load_balance(chromosome) * SoftWeight("load_balance")
        total_soft == s1 + s2 + s3
    IN <<HARD_WEIGHT * total_hard * FitDen + SOFT_WEIGHT * total_soft, total_hard, total_soft>>

\* get_detailed_analysis; s3_balance in FitDen-ths
get_detailed_analysis(chromosome) ==
    [h1_teacher   |-> check_teacher_conflicts(chromosome),
     h2_room      |-> check_room_conflicts(chromosome),
     h3_group     |-> check_group_conflicts(chromosome),
     h4_capacity  |-> check_capacity_violations(chromosome),
     h5_room_type |-> check_room_type_violations(chromosome),
     s1_gaps      |-> calculate_schedule_gaps(chromosome),
     s2_time      |-> calculate_time_penalties(chromosome),
     s3_balance   |-> calculate_load_balance(chromosome)]

-----------------------------------------------------------------------------
(* Random draws.  random.random() is sampled at the points of UniformDraws *)
(* (thousandths); random.choice and random.sample range over every value.  *)

UniformDraws == {0, 500, 999}

SlotIdSet == {slot_ids[i] : i \in DOMAIN slot_ids}
RoomIdSet == {room_ids[i] : i \in DOMAIN room_ids}
Genes == SlotIdSet \X RoomIdSet

\* [s for s in slot_ids if slot_penalties[s] == 0] or slot_ids
PreferredSlots ==
    LET zero == {s \in SlotIdSet : SlotById(s).penalty = 0}
    IN IF zero # {} THEN zero ELSE SlotIdSet

\* random.sample(range(n), k): the sequences of k distinct positions
Samples(n, k) == {s \in [1..k -> 1..n] : \A i, j \in 1..k : i # j => s[i] # s[j]}

-----------------------------------------------------------------------------
(* TimetableGA: chromosome factory *)

\* create_chromosome; draws[i] = (random.choice(slot_ids), random.choice(room_ids))
create_chromosome(draws) == List([i \in DOMAIN sessions |-> <<draws[i][1], draws[i][2]>>])

\* suitable_rooms.sort(key=usage)[0]: least used suitable room, the first of them in room_ids
LeastUsed(suitable, room_usage) ==
    suitable[CHOOSE i \in DOMAIN suitable :
                 /\ \A j \in DOMAIN suitable : room_usage[suitable[i]] <= room_usage[suitable[j]]
                 /\ \A j \in 1..(i - 1) : room_usage[suitable[j]] # room_usage[suitable[i]]]

\* the room create_greedy_chromosome gives a session; room_draw = random.choice(room_ids)
GreedyRoom(session, room_usage, room_draw) ==
    LET suitable == SelectSeq(room_ids,
                        LAMBDA r : RoomById(r).capacity >= GroupSize(session.group_name))
    IN IF suitable # <<>> THEN LeastUsed(suitable, room_usage) ELSE room_draw

RECURSIVE GreedyFrom(_, _, _)
GreedyFrom(chromosome, room_usage, draws) ==
    IF Len(chromosome) = Len(sessions) THEN chromosome
    ELSE LET i    == Len(chromosome) + 1
             room == GreedyRoom(sessions[i], room_usage, draws[i][2])
             slot == draws[i][1]
         IN GreedyFrom(Append(chromosome, <<slot, room>>),
                       [room_usage EXCEPT ![room] = @ + 1], draws)

\* create_greedy_chromosome; draws[i] = (slot choice, fallback room choice)
create_greedy_chromosome(draws) == GreedyFrom(<<>>, [r \in RoomIdSet |-> 0], draws)

\* random.choice on an empty list raises IndexError
ChromosomeRaises == sessions # <<>> /\ (slot_ids = <<>> \/ room_ids = <<>>)

RandomChromosomes == {create_chromosome(d) : d \in [DOMAIN sessions -> Genes]}
GreedyChromosomes ==
    {create_greedy_chromosome(d) : d \in [DOMAIN sessions -> PreferredSlots \X RoomIdSet]}

-----------------------------------------------------------------------------
(* GeneticAlgorithm *)

\* Python's pop_size // 2 (floor division)
HalfPop(pop_size) == IF pop_size >= 0 THEN pop_size \div 2 ELSE -((1 - pop_size) \div 2)

\* initialize_population: the populations it can return
InitialPopulations(pop_size) ==
    LET nr == Max(HalfPop(pop_size), 0)
        ng == Max(pop_size - nr, 0)
    IN {List(r) \o List(g) : r \in [1..nr -> RandomChromosomes], g \in [1..ng -> GreedyChromosomes]}

\* tournament_selection; sample = random.sample(range(len(population)), min(5, len(population)))
tournament_selection(pop, fitnesses, sample) ==
    LET best_idx == sample[CHOOSE i \in DOMAIN sample :
                              /\ \A j \in DOMAIN sample : fitnesses[sample[i]] <= fitnesses[sample[j]]
                              /\ \A j \in 1..(i - 1) : fitnesses[sample[j]] # fitnesses[sample[i]]]
    IN pop[best_idx]

\* a crossover whose second child repeats the first
crossover_one_child(parent1, parent2, crossover_rate, u, coins) ==
    IF u > crossover_rate THEN <<parent1, parent2>>
    ELSE <<List([i \in DOMAIN parent1 |-> IF coins[i] < 500 THEN parent1[i] ELSE parent2[i]]),
           List([i \in DOMAIN parent1 |-> IF coins[i] < 500 THEN parent1[i] ELSE parent2[i]])>>

\* crossover; u and coins[i] are the random.random() draws
crossover(parent1, parent2, crossover_rate, u, coins) ==
    IF u > crossover_rate THEN <<parent1, parent2>>
    ELSE <<List([i \in DOMAIN parent1 |-> IF coins[i] < 500 THEN parent1[i] ELSE parent2[i]]),
           List([i \in DOMAIN parent1 |-> IF coins[i] < 500 THEN parent2[i] ELSE parent1[i]])>>

\* MutateGene storing the position of the drawn slot in slot_ids instead of its id
MutateGeneByPosition(gene, mutation_rate, d) ==
    IF d.u < mutation_rate
    THEN CASE d.type = "slot" -> <<d.slot - 1, gene[2]>>
           [] d.type = "room" -> <<gene[1], d.room>>
           [] OTHER           -> <<d.slot - 1, d.room>>
    ELSE gene

\* MutateGene mutating on a draw equal to the rate as well
MutateGeneInclusive(gene, mutation_rate, d) ==
    IF d.u <= mutation_rate
    THEN CASE d.type = "slot" -> <<d.slot, gene[2]>>
           [] d.type = "room" -> <<gene[1], d.room>>
           [] OTHER           -> <<d.slot, d.room>>
    ELSE gene

\* one iteration of mutate's loop; d = [u, type, slot, room]
MutateGene(gene, mutation_rate, d) ==
    IF d.u < mutation_rate
    THEN CASE d.type = "slot" -> <<d.slot, gene[2]>>
           [] d.type = "room" -> <<gene[1], d.room>>
           [] OTHER           -> <<d.slot, d.room>>
    ELSE gene

\* mutate; draws[i] are the draws of iteration i
mutate(chromosome, mutation_rate, draws) ==
    List([i \in DOMAIN chromosome |-> MutateGene(chromosome[i], mutation_rate, draws[i])])

MutationDraws ==
    [u : UniformDraws, type : {"slot", "room", "both"}, slot : SlotIdSet, room : RoomIdSet]

\* every chromosome mutate can return: the draws of distinct genes are independent
MutateOutcomes(chromosome, mutation_rate) ==
    LET G == [i \in DOMAIN chromosome |->
                 {MutateGene(chromosome[i], mutation_rate, d) : d \in MutationDraws}]
    IN {List(m) : m \in {f \in [DOMAIN chromosome -> UNION {G[i] : i \in DOMAIN chromosome}] :
                             \A i \in DOMAIN chromosome : f[i] \in G[i]}}

CrossoverOutcomes(parent1, parent2, crossover_rate) ==
    {crossover(parent1, parent2, crossover_rate, u, coins) :
        u \in UniformDraws, coins \in [DOMAIN parent1 -> UniformDraws]}

TournamentOutcomes(pop, fitnesses) ==
    {tournament_selection(pop, fitnesses, s) :
        s \in Samples(Len(pop), Min(TournamentSize, Len(pop)))}

\* what one iteration of the reproduction loop can produce: two tournaments, one
\* crossover, then per crossed pair every mutation of its first and of its second child
Crossed(pop, fitnesses, crossover_rate) ==
    LET parents == TournamentOutcomes(pop, fitnesses)
    IN UNION {CrossoverOutcomes(p1, p2, crossover_rate) : p1 \in parents, p2 \in parents}

\* the (child1, child2) pairs an iteration can append
ChildPairs(crossed, mutation_rate) ==
    LET M == [c \in {x[1] : x \in crossed} \cup {x[2] : x \in crossed} |->
                 MutateOutcomes(c, mutation_rate)]
    IN UNION {M[c[1]] \X M[c[2]] : c \in crossed}

\* the child1 values an iteration can append
FirstChildren(crossed, mutation_rate) ==
    UNION {MutateOutcomes(c, mutation_rate) : c \in {x[1] : x \in crossed}}

\* the indices sorted by descending fitness
RECURSIVE SortedIndicesDescending(_, _)
SortedIndicesDescending(fitnesses, left) ==
    IF left = {} THEN <<>>
    ELSE LET i == CHOOSE k \in left :
                      \A j \in left : fitnesses[k] > fitnesses[j]
                                      \/ (fitnesses[k] = fitnesses[j] /\ k <= j)
         IN <<i>> \o SortedIndicesDescending(fitnesses, left \ {i})

\* sorted(range(len(fitnesses)), key=fitness): stable, so equal fitnesses keep index order
RECURSIVE SortedIndices(_, _)
SortedIndices(fitnesses, left) ==
    IF left = {} THEN <<>>
    ELSE LET i == CHOOSE k \in left :
                      \A j \in left : fitnesses[k] < fitnesses[j]
                                      \/ (fitnesses[k] = fitnesses[j] /\ k <= j)
         IN <<i>> \o SortedIndices(fitnesses, left \ {i})

\* Python's list[:n]
Prefix(s, n) ==
    IF n >= 0 THEN SubSeq(s, 1, Min(n, Len(s)))
    ELSE SubSeq(s, 1, Max(Len(s) + n, 0))

\* the elite taken from the end of the sorted indices
EliteIndicesFromEnd(fitnesses, elitism) ==
    LET sorted == SortedIndices(fitnesses, DOMAIN fitnesses)
    IN SubSeq(sorted, Len(sorted) - Min(Max(elitism, 0), Len(sorted)) + 1, Len(sorted))

\* an elite made of copies of the best individual only
EliteBestOnly(pop, fitnesses, elitism) ==
    LET e == Prefix(SortedIndices(fitnesses, DOMAIN fitnesses), elitism)
    IN List([k \in DOMAIN e |-> pop[e[1]]])

\* elite_indices, and the copies of the elite
EliteIndices(fitnesses, elitism) ==
    Prefix(SortedIndices(fitnesses, DOMAIN fitnesses), elitism)
Elite(pop, fitnesses, elitism) ==
    LET e == EliteIndices(fitnesses, elitism) IN List([k \in DOMAIN e |-> pop[e[k]]])

\* the while loop without the truncation offspring[:pop_size]
RECURSIVE BreedUntruncated(_, _, _, _)
BreedUntruncated(offspring, crossed, mutation_rate, pop_size) ==
    IF ~(Len(offspring) < pop_size) THEN {offspring}
    ELSE UNION {BreedUntruncated(offspring \o <<c[1], c[2]>>, crossed, mutation_rate,
                                 pop_size) :
                   c \in ChildPairs(crossed, mutation_rate)}

\* the while loop followed by offspring[:pop_size]: the populations reachable from
\* offspring by appending child pairs; of the pair that reaches pop_size - 1 only
\* child1 survives the truncation
RECURSIVE Breed(_, _, _, _)
Breed(offspring, crossed, mutation_rate, pop_size) ==
    IF ~(Len(offspring) < pop_size) THEN {Prefix(offspring, pop_size)}
    ELSE IF Len(offspring) = pop_size - 1
    THEN {Append(offspring, c) : c \in FirstChildren(crossed, mutation_rate)}
    ELSE UNION {Breed(offspring \o <<c[1], c[2]>>, crossed, mutation_rate, pop_size) :
                   c \in ChildPairs(crossed, mutation_rate)}

\* selection and reproduction: every population the generation step can build
NextPopulations(pop, fitnesses, params) ==
    Breed(Elite(pop, fitnesses, params.elitism),
          Crossed(pop, fitnesses, params.crossover_rate),
          params.mutation_rate, params.population_size)

-----------------------------------------------------------------------------
(* SimulatedAnnealing *)

MoveTypes == {"swap", "move_slot", "move_room", "move_both"}

\* random.sample(range(n), 2) with n < 2 and random.randint(0, -1) raise ValueError
NeighborRaises(chromosome, move_type) ==
    IF move_type = "swap" THEN Len(chromosome) < 2 ELSE Len(chromosome) = 0

\* the draws get_neighbor makes after move_type: positions i, j and the choices
NeighborDraws(chromosome, move_type) ==
    IF move_type = "swap"
    THEN {[move_type |-> move_type, i |-> q[1], j |-> q[2], slot |-> 0, room |-> ""] :
             q \in {r \in (DOMAIN chromosome) \X (DOMAIN chromosome) : r[1] # r[2]}}
    ELSE [move_type : {move_type}, i : DOMAIN chromosome, j : {0},
          slot : IF move_type = "move_room" THEN {0} ELSE SlotIdSet,
          room : IF move_type = "move_slot" THEN {""} ELSE RoomIdSet]

\* get_neighbor
get_neighbor(chromosome, d) ==
    CASE d.move_type = "swap" ->
             [chromosome EXCEPT ![d.i] = chromosome[d.j], ![d.j] = chromosome[d.i]]
      [] d.move_type = "move_slot" ->
             [chromosome EXCEPT ![d.i] = <<d.slot, chromosome[d.i][2]>>]
      [] d.move_type = "move_room" ->
             [chromosome EXCEPT ![d.i] = <<chromosome[d.i][1], d.room>>]
      [] OTHER ->
             [chromosome EXCEPT ![d.i] = <<d.slot, d.room>>]

\* -ln(u), in thousandths, for the sampled draws u > 0
NegLn(u) == CASE u = 999 -> 1 [] u = 750 -> 288 [] u = 500 -> 693 [] u = 250 -> 1386
              [] OTHER -> 6908

\* math.exp(-delta / t) is 0.0 once delta / t exceeds 745.1 (delta > 0, in FitDen-ths;
\* t > 0 in thousandths)
ExpIsZero(delta, t) == delta > (7451 * FitDen * t) \div 10000

\* u < math.exp(-delta / t), for delta >= 0:  delta / t < -ln(u)
BelowExp(u, delta, t) ==
    IF delta = 0 THEN TRUE
    ELSE IF u = 0 THEN ~ExpIsZero(delta, t)
    ELSE delta <= (NegLn(u) * FitDen * t - 1) \div 1000000

\* an acceptance of the strictly better neighbors only
AcceptsDownhillOnly(delta, temp, u) == delta < 0

\* the acceptance criterion of optimize
Accepts(delta, temp, u) == delta < 0 \/ BelowExp(u, delta, Max(temp, TempFloor))

\* the numerator and denominator of a rate given in thousandths, in lowest terms
RECURSIVE Gcd(_, _)
Gcd(a, b) == IF b = 0 THEN a ELSE Gcd(b, a % b)
RateNum(rate) == rate \div Gcd(rate, 1000)
RateDen(rate) == 1000 \div Gcd(rate, 1000)

\* the largest n with a * num^n >= b * den^n, counted from n  (num < den, a >= b)
RECURSIVE Steps(_, _, _, _, _)
Steps(a, b, num, den, n) ==
    IF a * num >= b * den THEN Steps(a * num, b * den, num, den, n + 1) ELSE n

\* int(math.log(0.1 / initial_temp) / math.log(cooling_rate)), 0 < cooling_rate < 1:
\* the quotient truncated towards zero
LogQuotient(initial_temp, cooling_rate) ==
    IF initial_temp >= StopTemp
    THEN Steps(initial_temp, StopTemp, RateNum(cooling_rate), RateDen(cooling_rate), 0)
    ELSE -Steps(StopTemp, initial_temp, RateNum(cooling_rate), RateDen(cooling_rate), 0)

\* math.log raises ValueError on a value <= 0; 0.1 / 0 and x / math.log(1) raise
\* ZeroDivisionError
EstimateRaises(params) ==
    params.initial_temp <= 0 \/ params.cooling_rate <= 0 \/ params.cooling_rate = 1000

\* a loop that runs while the temperature is positive
AboveZero(temp) == temp > 0

\* while temperature > 0.1
AboveStopTemp(temp) == temp > StopTemp

\* two cooling steps taken as one
CoolTwice(temp, cooling_rate) == (temp * cooling_rate * cooling_rate) \div 1000000

\* temperature *= cooling_rate
Cool(temp, cooling_rate) == (temp * cooling_rate) \div 1000

\* Progress without the min(1.0, ...)
ProgressUnclamped(total, estimate) == (total * 1000) \div Max(estimate, 1)

\* min(1.0, total_iterations / max(max_iterations_estimate, 1)), in thousandths
Progress(total, estimate) == Min(1000, (total * 1000) \div Max(estimate, 1))

-----------------------------------------------------------------------------
(* Inputs *)

MaxPop == 2     \* population sizes and elite sizes 0..MaxPop
MaxGen == 2     \* generation counts 0..MaxGen
MaxIter == 2    \* iterations per temperature 0..MaxIter

R1  == [room_id |-> "R1", capacity |-> 100, type |-> "Classroom"]
R50 == [room_id |-> "R1", capacity |-> 50, type |-> "Classroom"]
A1  == [room_id |-> "A1", capacity |-> 400, type |-> "Amphitheater"]
A2  == [room_id |-> "A2", capacity |-> 150, type |-> "Amphitheater"]
G30(name) == [group_name |-> name, size |-> 30]
Row(type, teacher, groups) ==
    [session_type |-> type, teacher_id |-> teacher, involved_groups |-> groups]
At(time, pen) == [start_time |-> time, penalty |-> pen]

\* Scenario A of the specification: one session, one room, one start time
ScenarioA ==
    [rooms |-> <<R1>>, groups |-> <<G30("G1")>>,
     assignments |-> <<Row("Cours", "T1", <<"G1">>)>>, slot_penalties |-> <<At(830, 0)>>]
\* one teacher, two groups, one room, every slot penalised
ScenarioB ==
    [rooms |-> <<R1>>, groups |-> <<G30("G1"), G30("G2")>>,
     assignments |-> <<Row("Cours", "T1", <<"G1", "G2">>)>>, slot_penalties |-> <<At(830, 5)>>]
\* Scenario C: a group of 200, an amphitheater and a small classroom
ScenarioC ==
    [rooms |-> <<A1, R50>>, groups |-> <<[group_name |-> "G1", size |-> 200]>>,
     assignments |-> <<Row("Cours", "T1", <<"G1">>)>>, slot_penalties |-> <<At(830, 0)>>]
\* a group of 200 and no room that holds it
ScenarioTight ==
    [rooms |-> <<R50, A2>>, groups |-> <<[group_name |-> "G1", size |-> 200]>>,
     assignments |-> <<Row("Cours", "T1", <<"G1">>)>>, slot_penalties |-> <<At(830, 0)>>]
\* one session, one room, two start times with different penalties
ScenarioPenalty ==
    [rooms |-> <<R1>>, groups |-> <<G30("G1")>>,
     assignments |-> <<Row("Cours", "T1", <<"G1">>)>>,
     slot_penalties |-> <<At(830, 3), At(1400, 5)>>]
\* one teacher, two groups, one room, no penalty: a clash when both sessions share a slot
ScenarioClash == [ScenarioB EXCEPT !.slot_penalties = <<At(830, 0)>>]
NoSessions == [ScenarioA EXCEPT !.assignments = <<>>]
NoRooms    == [ScenarioA EXCEPT !.rooms = <<>>]
NoSlots    == [ScenarioA EXCEPT !.slot_penalties = <<>>]

BaseGA == [population_size |-> 2, generations |-> 2, crossover_rate |-> 800,
           mutation_rate |-> 150, elitism |-> 1]
\* a population of one, rebuilt from its only member
SingleGA == [population_size |-> 1, generations |-> 1, crossover_rate |-> 800,
             mutation_rate |-> 150, elitism |-> 0]
\* a population made of its elite
FullEliteGA == [BaseGA EXCEPT !.elitism = 2]
\* an elite of two in a population of three, no crossover and no mutation asked for
EliteGA == [population_size |-> 3, generations |-> 1, crossover_rate |-> 0,
            mutation_rate |-> 0, elitism |-> 2]
\* a population of one with generations to spare
LongGA == [SingleGA EXCEPT !.generations = MaxGen + 1]
BaseSA == [initial_temp |-> 400, cooling_rate |-> 500, iterations |-> 1]
\* one temperature level
ShortSA == [initial_temp |-> 200, cooling_rate |-> 500, iterations |-> 1]
BaseWeights == [gaps |-> 1, time_penalties |-> 1, load_balance |-> 1]

\* an initial temperature at the stopping temperature: the annealing loop is not entered
ColdSA == [initial_temp |-> 100, cooling_rate |-> 500, iterations |-> 1]
\* an initial temperature of 0.05, below the stopping temperature
FrozenSA == [initial_temp |-> 50, cooling_rate |-> 500, iterations |-> 2]

\* the base GA configuration with one parameter changed; the elite sizes are tried on
\* a single generation
GAConfigs ==
    {[BaseGA EXCEPT !.generations = g] : g \in 0..MaxGen}
    \cup {[BaseGA EXCEPT !.elitism = e, !.generations = 1] : e \in 0..MaxPop}
    \cup {[BaseGA EXCEPT !.crossover_rate = r] : r \in {0, 1000, 1500}}
    \cup {[BaseGA EXCEPT !.mutation_rate = r] : r \in {0, 1000}}
\* the base GA configuration with the population size changed
PopConfigs == {[BaseGA EXCEPT !.population_size = p] : p \in 0..MaxPop}
\* the base SA configuration with one parameter changed
SAConfigs ==
    {[BaseSA EXCEPT !.initial_temp = t] : t \in {0, 50, 100, 300, 400}}
    \cup {[BaseSA EXCEPT !.cooling_rate = r] : r \in {500, 1000}}
    \cup {[BaseSA EXCEPT !.iterations = i] : i \in 0..MaxIter}
WeightConfigs ==
    {BaseWeights, [BaseWeights EXCEPT !.gaps = -1], [gaps |-> 0, time_penalties |-> 2]}

Config(d, g, a, w) == [data |-> d, ga_params |-> g, sa_params |-> a, soft_weights |-> w]

\* the runs explored: the GA parameters on an input whose solutions differ in fitness,
\* the population sizes and the SA parameters on Scenario A, the soft weights, and one
\* configuration on each of the other inputs
Scenarios ==
    {Config(ScenarioPenalty, g, ColdSA, BaseWeights) : g \in GAConfigs}
    \cup {Config(ScenarioA, g, BaseSA, BaseWeights) : g \in PopConfigs}
    \cup {Config(ScenarioA, BaseGA, a, BaseWeights) : a \in SAConfigs}
    \cup {Config(ScenarioPenalty, BaseGA, ShortSA, w) : w \in WeightConfigs}
    \cup {Config(ScenarioPenalty, BaseGA, BaseSA, BaseWeights)}
    \cup {Config(ScenarioPenalty, [SingleGA EXCEPT !.generations = 2], ColdSA, BaseWeights)}
    \cup {Config(ScenarioPenalty, SingleGA, FrozenSA, BaseWeights)}
    \cup {Config(ScenarioPenalty, FullEliteGA, ColdSA, BaseWeights)}
    \cup {Config(ScenarioTight, EliteGA, ColdSA, BaseWeights)}
    \cup {Config(ScenarioClash, LongGA, ColdSA, BaseWeights)}
    \cup {Config(d, SingleGA, ShortSA, BaseWeights) : d \in {ScenarioB, ScenarioTight}}
    \cup {Config(d, BaseGA, BaseSA, BaseWeights) :
             d \in {ScenarioC, NoSessions, NoRooms, NoSlots}}

-----------------------------------------------------------------------------
(* State machine *)

\* a constructor that leaves the generator as it finds it
StaleState(seed) == rng

\* random.seed(random_seed): the generator state is a function of the seed
SeedState(seed) == seed

\* the generator: the draws of a step are a function of its state
RngModulus == 101
Stride == 40

\* the i-th number the generator returns from state r
DrawAt(r, i) == (((r + i) % RngModulus) * 37 + 11) % RngModulus

\* the generator state after the draws of one step
Advance(r) == (r + Stride) % RngModulus

\* random.choice(seq) on the number x
Choice(seq, x) == seq[(x % Len(seq)) + 1]

\* random.random() on the number x
Uniform(x) == Choice(SortSet(UniformDraws), x)

RECURSIVE Nth(_, _)
Nth(S, k) ==
    LET x == CHOOSE y \in S : TRUE
    IN IF k = 0 THEN x ELSE Nth({y : y \in S \ {x}}, k - 1)

\* the draws of one step taken from the values the generator can return: the one its
\* state selects
Drawn(S) == IF S = {} THEN {} ELSE {Nth(S, DrawAt(rng, Cardinality(S)) % Cardinality(S))}

\* create_chromosome and create_greedy_chromosome on the generator at state r
SeededChromosome(r) ==
    create_chromosome([i \in DOMAIN sessions |->
        <<Choice(slot_ids, DrawAt(r, 2 * i)), Choice(room_ids, DrawAt(r, 2 * i + 1))>>])
SeededGreedyChromosome(r) ==
    create_greedy_chromosome([i \in DOMAIN sessions |->
        <<Choice(SortSet(PreferredSlots), DrawAt(r, 2 * i)),
          Choice(room_ids, DrawAt(r, 2 * i + 1))>>])

\* initialize_population on the generator at state r
SeededInitialPopulation(r, pop_size) ==
    LET nr == Max(HalfPop(pop_size), 0)
        ng == Max(pop_size - nr, 0)
    IN List([k \in 1..(nr + ng) |->
                IF k <= nr THEN SeededChromosome(r + k * 2 * Len(sessions))
                ELSE SeededGreedyChromosome(r + k * 2 * Len(sessions))])

\* tournament_selection, crossover and mutate on the generator at state r
SeededTournament(pop, fitnesses, r) ==
    LET samples == Samples(Len(pop), Min(TournamentSize, Len(pop)))
    IN tournament_selection(pop, fitnesses, Nth(samples, DrawAt(r, 0) % Cardinality(samples)))
SeededCrossover(parent1, parent2, crossover_rate, r) ==
    crossover(parent1, parent2, crossover_rate, Uniform(DrawAt(r, 0)),
              [i \in DOMAIN parent1 |-> Uniform(DrawAt(r, i))])
SeededMutate(chromosome, mutation_rate, r) ==
    mutate(chromosome, mutation_rate,
           [i \in DOMAIN chromosome |->
               [u    |-> Uniform(DrawAt(r, 4 * i)),
                type |-> Choice(<<"slot", "room", "both">>, DrawAt(r, 4 * i + 1)),
                slot |-> Choice(slot_ids, DrawAt(r, 4 * i + 2)),
                room |-> Choice(room_ids, DrawAt(r, 4 * i + 3))]])

\* the reproduction loop and the truncation on the generator at state r
RECURSIVE SeededBreed(_, _, _, _, _)
SeededBreed(offspring, pop, fitnesses, params, r) ==
    IF ~(Len(offspring) < params.population_size)
    THEN Prefix(offspring, params.population_size)
    ELSE LET n       == Len(sessions)
             parent1 == SeededTournament(pop, fitnesses, r)
             parent2 == SeededTournament(pop, fitnesses, r + 1)
             crossed == SeededCrossover(parent1, parent2, params.crossover_rate, r + 2)
             child1  == SeededMutate(crossed[1], params.mutation_rate, r + 3 + n)
             child2  == SeededMutate(crossed[2], params.mutation_rate, r + 7 + 5 * n)
         IN SeededBreed(offspring \o <<child1, child2>>, pop, fitnesses, params,
                        r + 11 + 9 * n)

\* the population the generation step builds on the generator at state r
SeededNextPopulation(pop, r) ==
    LET fitnesses == List([i \in DOMAIN pop |-> calculate_fitness(pop[i])[1]])
    IN SeededBreed(Elite(pop, fitnesses, ga_params.elitism), pop, fitnesses, ga_params, r)

\* the outcomes of a draw: any value the generator can return or, on the seeded
\* generator, the one its state selects
Outcomes(seeded, S) == IF seeded THEN Drawn(S) ELSE S

\* the same for a population, which the seeded generator builds draw by draw
OutcomeOf(seeded, S, drawn) == IF seeded THEN S \cap {drawn} ELSE S

Blank ==
    /\ phase = "new" /\ error = ""
    /\ sessions = <<>> /\ rooms = <<>> /\ slots = <<>> /\ group_size_map = <<>>
    /\ population = <<>> /\ gen = 0 /\ ga_stopped = FALSE
    /\ best_ever = None /\ best_fitness_ever = Infinity /\ ga_history = <<>>
    /\ ga_solution = None /\ initial_fitness = None
    /\ current = None /\ current_fitness = 0 /\ best = None /\ best_fitness = 0
    /\ temperature = 0 /\ batch_i = 0 /\ total_iterations = 0
    /\ max_iterations_estimate = 0 /\ sa_history = <<>>
    /\ best_solution = None /\ final_fitness = None
    /\ ga_cb_log = <<>> /\ sa_cb_log = <<>>
    /\ eval_chromosome = None /\ eval_result = None /\ eval_analysis = None
    /\ op_call = None /\ op_result = None /\ metrics = None

Init ==
    /\ \E c \in Scenarios :
          /\ data = c.data /\ ga_params = c.ga_params /\ sa_params = c.sa_params
          /\ soft_weights = c.soft_weights
    /\ random_seed = 42
    /\ rng = 0
    /\ first_run = None
    /\ Blank

Raise(exc) == phase' = "error" /\ error' = exc

inputVars == <<data, ga_params, sa_params, random_seed>>
modelVars == <<sessions, rooms, slots, group_size_map, soft_weights>>
gaVars == <<population, gen, ga_stopped, best_ever, best_fitness_ever, ga_history,
            ga_cb_log>>
saVars == <<current, current_fitness, best, best_fitness, temperature, batch_i,
            total_iterations, max_iterations_estimate, sa_history, sa_cb_log>>
resultVars == <<ga_solution, initial_fitness, best_solution, final_fitness>>
evalVars == <<eval_chromosome, eval_result, eval_analysis, op_call, op_result, metrics>>

\* TimetableOptimizer.__init__: seed, _preprocess_data, TimetableGA, ConstraintChecker,
\* TimetableGenerator (which reads slots_df['start_time'], a KeyError on an empty frame)
Construct ==
    /\ phase = "new"
    /\ rng' = SeedState(random_seed)
    /\ slots' = BuildSlots(data.slot_penalties)
    /\ sessions' = ExtractSessions(data.assignments)
    /\ group_size_map' = BuildGroupSizeMap(data.groups)
    /\ rooms' = data.rooms
    /\ IF data.slot_penalties = <<>> THEN Raise("KeyError")
       ELSE phase' = "ready" /\ error' = ""
    /\ UNCHANGED <<inputVars, soft_weights, gaVars, saVars, resultVars, evalVars, first_run>>

\* run_full_optimization -> run_ga -> evolve up to its loop: initialize_population
StartGAWith(seeded, next_rng) ==
    /\ phase = "ready"
    /\ IF ga_params.population_size >= 1 /\ ChromosomeRaises
       THEN Raise("IndexError") /\ UNCHANGED <<population, rng>>
       ELSE /\ population' \in OutcomeOf(seeded, InitialPopulations(ga_params.population_size),
                                          SeededInitialPopulation(rng, ga_params.population_size))
            /\ rng' = next_rng
            /\ phase' = "ga" /\ error' = ""
    /\ gen' = 0 /\ ga_stopped' = FALSE
    /\ best_ever' = None /\ best_fitness_ever' = Infinity /\ ga_history' = <<>>
    /\ UNCHANGED <<inputVars, modelVars, ga_cb_log, saVars, resultVars,
                   evalVars, first_run>>

StartGA == StartGAWith(FALSE, rng)

\* the best of the generation always taken as the best ever
LatestIsBest(fitness, best_so_far) == TRUE

\* a loop without the early-stopping break
NeverStops(fitness) == FALSE

\* if best_fitness == 0: break
EarlyStop(fitness) == fitness = 0

\* the best of the first generation kept for good
FirstIsBest(fitness, best_so_far) == best_so_far = Infinity

\* if best_fitness < best_fitness_ever
IsNewBest(fitness, best_so_far) == fitness < best_so_far

\* one iteration of evolve's loop: evaluate, track the best, call back, stop early or
\* build the next population
EvolveGenerationWith(seeded, next_rng) ==
    /\ phase = "ga" /\ gen < ga_params.generations /\ ~ga_stopped
    /\ IF population = <<>>
       THEN /\ Raise("ValueError")
            /\ UNCHANGED <<population, gen, ga_stopped, best_ever, best_fitness_ever,
                           ga_history, ga_cb_log, rng>>
       ELSE LET data_     == List([i \in DOMAIN population |-> calculate_fitness(population[i])])
                fitnesses == List([i \in DOMAIN population |-> data_[i][1]])
                best_idx  == IndexOfMin(fitnesses)
                best_fit  == data_[best_idx][1]
            IN /\ IF IsNewBest(best_fit, best_fitness_ever)
                  THEN best_ever' = Some(population[best_idx]) /\ best_fitness_ever' = best_fit
                  ELSE UNCHANGED <<best_ever, best_fitness_ever>>
               /\ ga_history' = Append(ga_history, best_fit)
               /\ ga_cb_log' = Append(ga_cb_log,
                                      [gen |-> gen, total |-> ga_params.generations,
                                       fitness |-> best_fit, hard |-> data_[best_idx][2],
                                       soft |-> data_[best_idx][3]])
               /\ IF EarlyStop(best_fit)
                  THEN ga_stopped' = TRUE /\ UNCHANGED <<population, gen, rng>>
                  ELSE /\ population' \in OutcomeOf(seeded,
                                 NextPopulations(population, fitnesses, ga_params),
                                 SeededNextPopulation(population, rng))
                       /\ rng' = next_rng
                       /\ gen' = gen + 1
                       /\ UNCHANGED ga_stopped
               /\ UNCHANGED <<phase, error>>
    /\ UNCHANGED <<inputVars, modelVars, saVars, resultVars, evalVars, first_run>>

EvolveGeneration == EvolveGenerationWith(FALSE, rng)

\* a loop that is left one generation early
GALoopDoneEarly == gen >= ga_params.generations - 1 \/ ga_stopped

\* evolve's loop is over: range(generations) is exhausted or the break was taken
GALoopDone == gen >= ga_params.generations \/ ga_stopped

\* evolve returns best_ever; run_full_optimization evaluates it and enters optimize,
\* up to its while loop
StartSA ==
    /\ phase = "ga" /\ GALoopDone
    /\ ga_solution' = best_ever
    /\ population' = <<>>                              \* evolve's locals are gone
    /\ IF best_ever = None
       THEN /\ Raise("TypeError")
            /\ UNCHANGED <<initial_fitness, saVars>>
       ELSE LET fit == calculate_fitness(Get(best_ever))
            IN /\ initial_fitness' = Some(fit[1])
               /\ current' = best_ever /\ current_fitness' = fit[1]
               /\ best' = best_ever /\ best_fitness' = fit[1]
               /\ temperature' = sa_params.initial_temp
               /\ sa_history' = <<fit[1]>>
               /\ total_iterations' = 0 /\ batch_i' = 0
               /\ UNCHANGED sa_cb_log
               /\ IF EstimateRaises(sa_params)
                  THEN Raise("ArithmeticError") /\ UNCHANGED max_iterations_estimate
                  ELSE /\ max_iterations_estimate' =
                              LogQuotient(sa_params.initial_temp, sa_params.cooling_rate)
                                  * sa_params.iterations
                       /\ phase' = "sa" /\ error' = ""
    /\ UNCHANGED <<inputVars, modelVars, rng, gen, ga_stopped, best_ever, best_fitness_ever,
                   ga_history, ga_cb_log, best_solution, final_fitness, evalVars, first_run>>

\* best taken from every accepted neighbor, the worse ones included
BestFollowsCurrent(accepted, fitness, best_so_far) == accepted

\* if current_fitness < best_fitness, inside the acceptance branch
ImprovesBest(accepted, fitness, best_so_far) == accepted /\ fitness < best_so_far

\* one iteration of optimize's inner loop: neighbor, evaluation, acceptance, history;
\* an observed move leaves its neighbor, its fitness and its draw in op_call
SAMoveWith(seeded, next_rng, observed) ==
    /\ phase = "sa" /\ AboveStopTemp(temperature) /\ batch_i < sa_params.iterations
    /\ rng' = next_rng
    /\ \E move_type \in Outcomes(seeded, MoveTypes) :
          IF NeighborRaises(Get(current), move_type)
          THEN /\ Raise("ValueError")
               /\ UNCHANGED <<current, current_fitness, best, best_fitness, sa_history,
                              total_iterations, batch_i, op_call>>
          ELSE \E d \in Outcomes(seeded, NeighborDraws(Get(current), move_type)),
                  u \in Outcomes(seeded, UniformDraws) :
                  LET neighbor == get_neighbor(Get(current), d)
                      nfit     == calculate_fitness(neighbor)[1]
                      delta    == nfit - current_fitness
                      accepted == Accepts(delta, temperature, u)
                  IN /\ current' = IF accepted THEN Some(neighbor) ELSE current
                     /\ current_fitness' = IF accepted THEN nfit ELSE current_fitness
                     /\ IF ImprovesBest(accepted, nfit, best_fitness)
                        THEN best' = Some(neighbor) /\ best_fitness' = nfit
                        ELSE UNCHANGED <<best, best_fitness>>
                     /\ sa_history' = Append(sa_history, current_fitness')
                     /\ total_iterations' = total_iterations + 1
                     /\ batch_i' = batch_i + 1
                     /\ op_call' = IF observed
                                   THEN Some([op |-> "sa_move", current |-> Get(current),
                                              current_fitness |-> current_fitness,
                                              neighbor |-> neighbor, neighbor_fitness |-> nfit,
                                              temperature |-> temperature, u |-> u,
                                              move |-> total_iterations + 1])
                                   ELSE op_call
                     /\ UNCHANGED <<phase, error>>
    /\ UNCHANGED <<inputVars, modelVars, gaVars, resultVars, eval_chromosome, eval_result,
                   eval_analysis, op_result, metrics, first_run,
                   temperature, max_iterations_estimate, sa_cb_log>>

SAMove == SAMoveWith(FALSE, rng, FALSE)

\* the end of a batch: progress callback, then cooling
SAEndBatch ==
    /\ phase = "sa" /\ AboveStopTemp(temperature) /\ ~(batch_i < sa_params.iterations)
    /\ LET fit == calculate_fitness(Get(best))
       IN sa_cb_log' = Append(sa_cb_log,
                              [progress |-> Progress(total_iterations, max_iterations_estimate),
                               temperature |-> temperature, fitness |-> best_fitness,
                               hard |-> fit[2], soft |-> fit[3]])
    /\ temperature' = Cool(temperature, sa_params.cooling_rate)
    /\ batch_i' = 0
    /\ UNCHANGED <<inputVars, modelVars, rng, gaVars, resultVars, evalVars, first_run,
                   phase, error, current, current_fitness, best, best_fitness,
                   total_iterations, max_iterations_estimate, sa_history>>

\* optimize returns best; run_sa and run_full_optimization store the results
FinishSA ==
    /\ phase = "sa" /\ ~(AboveStopTemp(temperature))
    /\ best_solution' = best
    /\ final_fitness' = Some(calculate_fitness(Get(best))[1])
    /\ phase' = "done"
    /\ UNCHANGED <<inputVars, modelVars, rng, gaVars, saVars, ga_solution, initial_fitness,
                   evalVars, first_run, error>>

Next == Construct \/ StartGA \/ EvolveGeneration \/ StartSA \/ SAMove \/ SAEndBatch \/ FinishSA

Spec == Init /\ [][Next]_vars

-----------------------------------------------------------------------------
(* The evaluator on its own: calculate_fitness and get_detailed_analysis applied to *)
(* every chromosome of inputs with three sessions.                                   *)

\* three sessions (two groups of one course, one tutorial), one room, two start times
EvalTimes ==
    [rooms |-> <<R1>>, groups |-> <<G30("G1"), G30("G2")>>,
     assignments |-> <<Row("Cours", "T1", <<"G1", "G2">>), Row("TD", "T2", <<"G1">>)>>,
     slot_penalties |-> <<At(830, 0), At(1400, 2)>>]
\* three sessions (a group of 200 twice, one row without teacher and groups), a small
\* classroom and an amphitheater that is too small, one start time
EvalRooms ==
    [rooms |-> <<R50, A2>>, groups |-> <<[group_name |-> "G1", size |-> 200]>>,
     assignments |-> <<Row("Cours", "T1", <<"G1">>), Row("TD", "T1", <<"G1">>),
                       Row("Cours", "", <<>>)>>,
     slot_penalties |-> <<At(830, 2)>>]

\* two assignment rows without involved groups, one room, one start time
EvalUngrouped ==
    [rooms |-> <<R1>>, groups |-> <<G30("G1")>>,
     assignments |-> <<Row("Cours", "", <<>>), Row("TD", "T1", <<>>)>>,
     slot_penalties |-> <<At(830, 0)>>]
\* one course of a group of 200, a 50-seat classroom and a 400-seat amphitheater
EvalLarge ==
    [rooms |-> <<R50, A1>>, groups |-> <<[group_name |-> "G1", size |-> 200]>>,
     assignments |-> <<Row("Cours", "T1", <<"G1">>)>>,
     slot_penalties |-> <<At(830, 0)>>]

InitEval ==
    /\ data \in {EvalTimes, EvalRooms, EvalUngrouped, EvalLarge}
    /\ soft_weights \in WeightConfigs
    /\ ga_params = BaseGA /\ sa_params = BaseSA
    /\ random_seed = 42
    /\ rng = 0
    /\ first_run = None
    /\ Blank

\* checker.calculate_fitness(c) and checker.get_detailed_analysis(c) on one chromosome
Evaluate ==
    /\ phase = "ready" /\ eval_chromosome = None
    /\ \E c \in RandomChromosomes :
          /\ eval_chromosome' = Some(c)
          /\ eval_result' = Some(calculate_fitness(c))
          /\ eval_analysis' = Some(get_detailed_analysis(c))
    /\ UNCHANGED <<inputVars, modelVars, rng, phase, error, gaVars, saVars, resultVars,
                   op_call, op_result, metrics, first_run>>

NextEval == Construct \/ Evaluate

SpecEval == InitEval /\ [][NextEval]_vars

-----------------------------------------------------------------------------
(* The metrics of the facade: get_metrics is called once, at any point of a run.  *)

Abs(x) == IF x < 0 THEN -x ELSE x

\* num / den * 100 as a fraction <<n, d>> in lowest terms, d > 0  (den # 0)
Pct(num, den) ==
    LET g    == Gcd(Abs(num), Abs(den))
        n1   == Abs(num) \div g
        d1   == Abs(den) \div g
        g2   == Gcd(100, d1)
        sign == IF (num < 0) = (den < 0) THEN 1 ELSE -1
    IN <<sign * n1 * (100 \div g2), d1 \div g2>>

\* TimetableOptimizer.get_metrics, without execution_time
get_metrics ==
    IF best_solution = None THEN None
    ELSE LET fit == calculate_fitness(Get(best_solution))
             initial == Get(initial_fitness)
         IN Some([final_fitness |-> fit[1], hard_violations |-> fit[2],
                  soft_penalty |-> fit[3], initial_fitness |-> initial,
                  improvement_pct |-> IF initial # 0 THEN Pct(initial - fit[1], initial)
                                      ELSE <<0, 1>>,
                  detailed_analysis |-> get_detailed_analysis(Get(best_solution))])

\* the default weights and a negative weight on the time penalties
MetricsWeights == {BaseWeights, [BaseWeights EXCEPT !.time_penalties = -1]}

MetricsScenarios ==
    {Config(ScenarioPenalty, BaseGA, ShortSA, w) : w \in MetricsWeights}
    \cup {Config(d, BaseGA, BaseSA, BaseWeights) : d \in {ScenarioA, NoSessions}}

InitMetrics ==
    /\ \E c \in MetricsScenarios :
          /\ data = c.data /\ ga_params = c.ga_params /\ sa_params = c.sa_params
          /\ soft_weights = c.soft_weights
    /\ random_seed = 42
    /\ rng = 0
    /\ first_run = None
    /\ Blank

\* optimizer.get_metrics() on the constructed optimizer
GetMetrics ==
    /\ phase # "new" /\ metrics = None
    /\ metrics' = Some(get_metrics)
    /\ UNCHANGED <<inputVars, modelVars, rng, phase, error, gaVars, saVars, resultVars,
                   eval_chromosome, eval_result, eval_analysis, op_call, op_result,
                   first_run>>

NextMetrics == Next \/ GetMetrics

SpecMetrics == InitMetrics /\ [][NextMetrics]_vars

-----------------------------------------------------------------------------
(* The genetic operators on their own: crossover and mutate are called once on    *)
(* chromosomes of the problem, with the rates of the configuration and every      *)
(* value of the draws.                                                            *)

OpsSlots == 2   \* the chromosomes handed to an operator use the slots 1..OpsSlots

\* the base rates, both rates 0 and both rates 1
OpsConfigs ==
    {BaseGA, [BaseGA EXCEPT !.crossover_rate = 0, !.mutation_rate = 0],
     [BaseGA EXCEPT !.crossover_rate = 1000, !.mutation_rate = 1000]}

\* the chromosomes handed to an operator
OpsParents == {c \in RandomChromosomes : \A i \in DOMAIN c : c[i][1] <= OpsSlots}

InitOps ==
    /\ data = ScenarioB
    /\ ga_params \in OpsConfigs
    /\ sa_params = BaseSA
    /\ soft_weights = BaseWeights
    /\ random_seed = 42
    /\ rng = 0
    /\ first_run = None
    /\ Blank

\* GeneticAlgorithm.crossover(parent1, parent2)
CallCrossover ==
    /\ phase = "ready" /\ op_call = None
    /\ \E parent1 \in OpsParents, parent2 \in OpsParents, u \in UniformDraws :
          \E coins \in [DOMAIN parent1 -> UniformDraws] :
             /\ op_call' = Some([op |-> "crossover", parent1 |-> parent1,
                                 parent2 |-> parent2, rate |-> ga_params.crossover_rate,
                                 u |-> u, coins |-> List(coins)])
             /\ op_result' = Some(crossover(parent1, parent2, ga_params.crossover_rate,
                                            u, List(coins)))
    /\ UNCHANGED <<inputVars, modelVars, rng, phase, error, gaVars, saVars, resultVars,
                   eval_chromosome, eval_result, eval_analysis, metrics, first_run>>

\* GeneticAlgorithm.mutate(chromosome)
CallMutate ==
    /\ phase = "ready" /\ op_call = None
    /\ \E chromosome \in OpsParents :
          \E draws \in [DOMAIN chromosome -> MutationDraws] :
             /\ op_call' = Some([op |-> "mutate", chromosome |-> chromosome,
                                 rate |-> ga_params.mutation_rate, draws |-> List(draws)])
             /\ op_result' = Some(mutate(chromosome, ga_params.mutation_rate, List(draws)))
    /\ UNCHANGED <<inputVars, modelVars, rng, phase, error, gaVars, saVars, resultVars,
                   eval_chromosome, eval_result, eval_analysis, metrics, first_run>>

NextOps == Construct \/ CallCrossover \/ CallMutate

SpecOps == InitOps /\ [][NextOps]_vars

-----------------------------------------------------------------------------
(* The operators on lists with identity.  A heap is a sequence of lists, a        *)
(* reference is a position of the heap; the genes are tuples and cannot be        *)
(* written.  An operator takes references and returns the heap it leaves.         *)

\* a second name for the same list, where the source takes a copy
ListAlias(heap, ref) == [heap |-> heap, ref |-> ref]

\* lst.copy(): a new list with the items of lst
ListCopy(heap, ref) == [heap |-> Append(heap, heap[ref]), ref |-> Len(heap) + 1]

\* a list built from [] by append
ListNew(heap, items) == [heap |-> Append(heap, items), ref |-> Len(heap) + 1]

\* the item assignments lst[i] = ... of an operator, leaving lst with these items
ListStore(heap, ref, items) == [heap EXCEPT ![ref] = items]

\* crossover: two copies, or two lists built by append
crossover_on(heap, parent1, parent2, crossover_rate, u, coins) ==
    IF u > crossover_rate
    THEN LET c1 == ListCopy(heap, parent1)
             c2 == ListCopy(c1.heap, parent2)
         IN [heap |-> c2.heap, result |-> <<c1.ref, c2.ref>>]
    ELSE LET children == crossover(heap[parent1], heap[parent2], crossover_rate, u, coins)
             c1 == ListNew(heap, children[1])
             c2 == ListNew(c1.heap, children[2])
         IN [heap |-> c2.heap, result |-> <<c1.ref, c2.ref>>]

\* mutate: mutated = chromosome.copy(), then mutated[i] = ...
mutate_on(heap, chromosome, mutation_rate, draws) ==
    LET mutated == ListCopy(heap, chromosome)
    IN [heap   |-> ListStore(mutated.heap, mutated.ref,
                             mutate(mutated.heap[mutated.ref], mutation_rate, draws)),
        result |-> <<mutated.ref>>]

\* tournament_selection: returns population[best_idx], the list itself; the population
\* is a list of references
tournament_selection_on(heap, pop, fitnesses, sample) ==
    [heap |-> heap, result |-> <<tournament_selection(heap[pop], fitnesses, sample)>>]

\* get_neighbor: neighbor = chromosome.copy(), then neighbor[i] = ...
get_neighbor_on(heap, chromosome, d) ==
    LET neighbor == ListCopy(heap, chromosome)
    IN [heap   |-> ListStore(neighbor.heap, neighbor.ref,
                             get_neighbor(neighbor.heap[neighbor.ref], d)),
        result |-> <<neighbor.ref>>]

\* calculate_fitness: reads the genes
calculate_fitness_on(heap, chromosome) ==
    [heap |-> heap, result |-> calculate_fitness(heap[chromosome])]

\* the heaps handed to the operators: two chromosomes
Heaps == {<<p1, p2>> : p1 \in OpsParents, p2 \in OpsParents}

\* the mutation draws within the slots of the chromosomes handed over
HeapDraws == {d \in MutationDraws : d.slot <= OpsSlots}

HeapCrossover ==
    /\ phase = "ready" /\ op_call = None
    /\ \E heap \in Heaps, u \in UniformDraws, coins \in [DOMAIN sessions -> UniformDraws] :
          /\ op_call' = Some([op |-> "crossover", heap |-> heap, args |-> <<1, 2>>])
          /\ op_result' = Some(crossover_on(heap, 1, 2, ga_params.crossover_rate, u,
                                            List(coins)))
    /\ UNCHANGED <<inputVars, modelVars, rng, phase, error, gaVars, saVars, resultVars,
                   eval_chromosome, eval_result, eval_analysis, metrics, first_run>>

HeapMutate ==
    /\ phase = "ready" /\ op_call = None
    /\ \E heap \in Heaps, ref \in 1..2, draws \in [DOMAIN sessions -> HeapDraws] :
          /\ op_call' = Some([op |-> "mutate", heap |-> heap, args |-> <<ref>>])
          /\ op_result' = Some(mutate_on(heap, ref, ga_params.mutation_rate, List(draws)))
    /\ UNCHANGED <<inputVars, modelVars, rng, phase, error, gaVars, saVars, resultVars,
                   eval_chromosome, eval_result, eval_analysis, metrics, first_run>>

HeapTournament ==
    /\ phase = "ready" /\ op_call = None
    /\ \E heap \in Heaps, sample \in Samples(2, Min(TournamentSize, 2)) :
          /\ op_call' = Some([op |-> "tournament_selection",
                              heap |-> Append(heap, <<1, 2>>), args |-> <<3>>])
          /\ op_result' = Some(tournament_selection_on(
                                   Append(heap, <<1, 2>>), 3,
                                   List([i \in 1..2 |-> calculate_fitness(heap[i])[1]]),
                                   sample))
    /\ UNCHANGED <<inputVars, modelVars, rng, phase, error, gaVars, saVars, resultVars,
                   eval_chromosome, eval_result, eval_analysis, metrics, first_run>>

HeapNeighbor ==
    /\ phase = "ready" /\ op_call = None
    /\ \E heap \in Heaps, ref \in 1..2, move_type \in MoveTypes :
          \E d \in NeighborDraws(heap[ref], move_type) :
             /\ op_call' = Some([op |-> "get_neighbor", heap |-> heap, args |-> <<ref>>])
             /\ op_result' = Some(get_neighbor_on(heap, ref, d))
    /\ UNCHANGED <<inputVars, modelVars, rng, phase, error, gaVars, saVars, resultVars,
                   eval_chromosome, eval_result, eval_analysis, metrics, first_run>>

HeapFitness ==
    /\ phase = "ready" /\ op_call = None
    /\ \E heap \in Heaps, ref \in 1..2 :
          /\ op_call' = Some([op |-> "calculate_fitness", heap |-> heap, args |-> <<ref>>])
          /\ op_result' = Some(calculate_fitness_on(heap, ref))
    /\ UNCHANGED <<inputVars, modelVars, rng, phase, error, gaVars, saVars, resultVars,
                   eval_chromosome, eval_result, eval_analysis, metrics, first_run>>

NextHeap ==
    Construct \/ HeapCrossover \/ HeapMutate \/ HeapTournament \/ HeapNeighbor
    \/ HeapFitness

SpecHeap == InitOps /\ [][NextHeap]_vars

-----------------------------------------------------------------------------
(* The annealing observed: every move leaves its neighbor, the fitness of the     *)
(* neighbor and its uniform draw in op_call.                                      *)

\* two temperature levels of two moves; one level reached by cooling_rate 0.25
SlowSA == [initial_temp |-> 300, cooling_rate |-> 500, iterations |-> MaxIter]
FastSA == [initial_temp |-> 400, cooling_rate |-> 250, iterations |-> 1]

AnnealScenarios ==
    {Config(ScenarioClash, SingleGA, a, BaseWeights) : a \in {ShortSA, ColdSA}}
    \cup {Config(ScenarioPenalty, SingleGA, BaseSA, BaseWeights)}
    \cup {Config(ScenarioPenalty, BaseGA, ShortSA, BaseWeights)}
    \cup {Config(ScenarioA, SingleGA, a, BaseWeights) : a \in {SlowSA, FastSA}}

InitAnneal ==
    /\ \E c \in AnnealScenarios :
          /\ data = c.data /\ ga_params = c.ga_params /\ sa_params = c.sa_params
          /\ soft_weights = c.soft_weights
    /\ random_seed = 42
    /\ rng = 0
    /\ first_run = None
    /\ Blank

ObservedSAMove == SAMoveWith(FALSE, rng, TRUE)

NextAnneal ==
    Construct \/ StartGA \/ EvolveGeneration \/ StartSA \/ ObservedSAMove \/ SAEndBatch
    \/ FinishSA

SpecAnneal == InitAnneal /\ [][NextAnneal]_vars

-----------------------------------------------------------------------------
(* Two runs on one generator.  The draws of a step are a function of the         *)
(* generator state; a finished run is recorded and the optimizer is built and    *)
(* run again on the same input, configuration and seed.                          *)

Seeds == {3, 7, 13, 42, 58, 99}

InitSeeded ==
    /\ \E c \in Scenarios :
          /\ data = c.data /\ ga_params = c.ga_params /\ sa_params = c.sa_params
          /\ soft_weights = c.soft_weights
    /\ random_seed \in Seeds
    /\ rng \in {0, 1}
    /\ first_run = None
    /\ Blank

SeededStartGA == StartGAWith(TRUE, Advance(rng))
SeededEvolveGeneration == EvolveGenerationWith(TRUE, Advance(rng))
SeededSAMove == SAMoveWith(TRUE, Advance(rng), FALSE)

\* what a run leaves behind
RunResults ==
    [best_solution |-> best_solution, final_fitness |-> final_fitness,
     ga_history |-> ga_history, sa_history |-> sa_history, error |-> error]

\* the first run is over: keep its results and start again from a new optimizer
Rerun ==
    /\ phase \in {"done", "error"} /\ first_run = None
    /\ first_run' = Some(RunResults)
    /\ phase' = "new" /\ error' = ""
    /\ sessions' = <<>> /\ rooms' = <<>> /\ slots' = <<>> /\ group_size_map' = <<>>
    /\ population' = <<>> /\ gen' = 0 /\ ga_stopped' = FALSE
    /\ best_ever' = None /\ best_fitness_ever' = Infinity /\ ga_history' = <<>>
    /\ ga_solution' = None /\ initial_fitness' = None
    /\ current' = None /\ current_fitness' = 0 /\ best' = None /\ best_fitness' = 0
    /\ temperature' = 0 /\ batch_i' = 0 /\ total_iterations' = 0
    /\ max_iterations_estimate' = 0 /\ sa_history' = <<>>
    /\ best_solution' = None /\ final_fitness' = None
    /\ ga_cb_log' = <<>> /\ sa_cb_log' = <<>>
    /\ UNCHANGED evalVars
    /\ UNCHANGED <<inputVars, soft_weights, rng>>

NextSeeded ==
    Construct \/ SeededStartGA \/ SeededEvolveGeneration \/ StartSA \/ SeededSAMove
    \/ SAEndBatch \/ FinishSA \/ Rerun

SpecSeeded == InitSeeded /\ [][NextSeeded]_vars

-----------------------------------------------------------------------------
(* Properties *)

\* the value of an optional as a set
Opt(o) == IF o = None THEN {} ELSE {Get(o)}

\* a configuration none of the rules of the specification (section 7, ConfigError)
\* rejects
ValidConfig ==
    /\ ga_params.population_size > 0 /\ ga_params.generations > 0
    /\ ga_params.elitism < ga_params.population_size
    /\ ga_params.crossover_rate \in 0..1000 /\ ga_params.mutation_rate \in 0..1000
    /\ sa_params.initial_temp > 0
    /\ sa_params.cooling_rate > 0 /\ sa_params.cooling_rate < 1000
    /\ sa_params.iterations > 0
    /\ \A k \in DOMAIN soft_weights : soft_weights[k] >= 0

\* the input has a session, a room and a slot
ValidData == data.assignments # <<>> /\ data.rooms # <<>> /\ data.slot_penalties # <<>>

\* C1: calculate_fitness returns (fitness, total_hard, total_soft) with total_hard the
\* sum of the five hard rules, total_soft the weighted sum of the three soft rules and
\* fitness = 1,000,000 * total_hard + total_soft, each rule's value being the one
\* get_detailed_analysis reports for the same chromosome (soft values in FitDen-ths).
FitnessIsWeightedSum ==
    eval_result # None =>
        LET r    == Get(eval_result)
            a    == Get(eval_analysis)
            hard == a.h1_teacher + a.h2_room + a.h3_group + a.h4_capacity + a.h5_room_type
            soft == SoftWeight("gaps") * a.s1_gaps * FitDen
                    + SoftWeight("time_penalties") * a.s2_time * FitDen
                    + SoftWeight("load_balance") * a.s3_balance
        IN /\ r[2] = hard
           /\ r[3] = soft
           /\ r[1] = 1000000 * hard * FitDen + soft

\* C1 witness: a chromosome breaking the room-type rule, with gaps, time penalties and
\* an uneven load, evaluated under non-default weights
FitnessAllRulesActive ==
    /\ eval_result # None
    /\ Get(eval_analysis).h5_room_type > 0 /\ Get(eval_analysis).h4_capacity > 0
    /\ Get(eval_analysis).h1_teacher > 0
    /\ Get(eval_analysis).s1_gaps # 0 /\ Get(eval_analysis).s2_time > 0
    /\ Get(eval_analysis).s3_balance > 0
    /\ SoftWeight("time_penalties") = 2
    /\ Get(eval_result)[1] > 1000000 * FitDen

\* a chromosome with one gene per session, its slot ids in slot_set and its room ids
\* in room_set
WellFormed(c, slot_set, room_set) ==
    /\ Len(c) = Len(sessions)
    /\ \A i \in DOMAIN c : c[i][1] \in slot_set /\ c[i][2] \in room_set

\* every chromosome the state holds
Produced ==
    {population[i] : i \in DOMAIN population} \cup Opt(best_ever) \cup Opt(ga_solution)
    \cup Opt(current) \cup Opt(best) \cup Opt(best_solution)

\* C2: every solution produced by the factory, by crossover, mutate and get_neighbor,
\* every individual of every population and the results of evolve, optimize and
\* run_full_optimization has one gene per session, each with a slot id and a room id
\* of the catalogs.
SolutionsWellFormed ==
    LET slot_set == {slots[i].slot_id : i \in DOMAIN slots}
        room_set == {rooms[i].room_id : i \in DOMAIN rooms}
        ValidChromosome(c) == WellFormed(c, slot_set, room_set)
    IN /\ \A c \in Produced : ValidChromosome(c)
       /\ (phase = "ready" /\ ~ChromosomeRaises) =>
              \A c \in RandomChromosomes \cup GreedyChromosomes : ValidChromosome(c)
       /\ phase = "ga" =>
              \A i, j \in DOMAIN population :
                 /\ \A x \in CrossoverOutcomes(population[i], population[j],
                                               ga_params.crossover_rate) :
                        ValidChromosome(x[1]) /\ ValidChromosome(x[2])
                 /\ i = j =>
                        \A m \in MutateOutcomes(population[i], ga_params.mutation_rate) :
                            ValidChromosome(m)
       /\ phase = "sa" =>
              \A move_type \in MoveTypes :
                 ~NeighborRaises(Get(current), move_type) =>
                     \A d \in NeighborDraws(Get(current), move_type) :
                         ValidChromosome(get_neighbor(Get(current), d))

\* C2 witness: a finished run on two sessions whose SA result differs from the GA's
TwoSessionResult ==
    /\ phase = "done" /\ Len(sessions) = 2
    /\ Len(Get(best_solution)) = 2
    /\ best_solution # ga_solution

\* C3: two runs on the same input, parameters, weights and seed end with the same
\* final solution, the same final fitness and the same GA and SA histories.
SameSeedSameRun ==
    (first_run # None /\ phase \in {"done", "error"}) => Get(first_run) = RunResults

\* C3 witness: the second run is over, and its SA moves improved the GA's solution
SecondRunDone ==
    /\ first_run # None /\ phase = "done"
    /\ ga_history # <<>> /\ Len(sa_history) > 1
    /\ best_solution # ga_solution

\* C4: best_fitness_ever never increases from one GA generation to the next, and
\* best_fitness never increases over an SA move, accepted or rejected.
BestNeverWorsens ==
    [][/\ (phase = "ga" /\ phase' = "ga") => best_fitness_ever' <= best_fitness_ever
       /\ (phase = "sa" /\ phase' = "sa") => best_fitness' <= best_fitness]_vars

\* C4 witness: the GA improved on its first generation, and SA then accepted a worse
\* neighbor while keeping its best
ImprovedThenWorseAccepted ==
    /\ phase = "sa" /\ Len(ga_history) = 2
    /\ best_fitness_ever < ga_history[1]
    /\ current_fitness > best_fitness

\* evolve raised: the run failed before run_ga returned
EvolveFailed == phase = "error" /\ error \in {"IndexError", "ValueError"} /\ ga_solution = None

\* C5: with generations >= 1 and pop_size >= 1 evolve never fails, and the solution
\* it returns has the minimum fitness of the history.
EvolveReturnsBestEver ==
    (ga_params.generations >= 1 /\ ga_params.population_size >= 1) =>
        /\ ~EvolveFailed
        /\ ga_solution # None =>
               calculate_fitness(Get(ga_solution))[1] = SeqMin(ga_history)

\* C6: on an input with exactly one session, a valid configuration never ends in an
\* exception, whatever the draws, and the run returns a solution of length 1.
SingleSessionTerminates ==
    (Len(ExtractSessions(data.assignments)) = 1 /\ ValidData /\ ValidConfig) =>
        /\ phase # "error"
        /\ phase = "done" => Len(Get(best_solution)) = 1

\* C7: an invalid configuration is rejected at construction: the optimizer is never
\* ready, and no GA generation and no SA move is executed.
InvalidConfigRejected ==
    ~ValidConfig =>
        /\ phase \in {"new", "error"}
        /\ ga_history = <<>> /\ total_iterations = 0

\* C8: an input with zero sessions, zero rooms or zero slots is rejected at
\* construction, before any chromosome is created or evaluated.
EmptyInputRejected ==
    ~ValidData =>
        /\ phase \in {"new", "error"}
        /\ population = <<>> /\ ga_history = <<>>

\* C9: SA starts only after the GA has completed, from the solution the GA returned;
\* initial_fitness is the fitness of the GA result, final_fitness the fitness of the
\* SA result, which is the value stored as best_solution.
GAThenSA ==
    /\ phase \in {"new", "ready", "ga"} => (sa_history = <<>> /\ sa_cb_log = <<>>)
    /\ phase \in {"sa", "done"} =>
           /\ \/ Len(ga_history) = ga_params.generations
              \/ (ga_history # <<>> /\ ga_history[Len(ga_history)] = 0)
           /\ ga_solution = best_ever
           /\ initial_fitness = Some(calculate_fitness(Get(ga_solution))[1])
           /\ sa_history[1] = Get(initial_fitness)
           /\ total_iterations = 0 => (current = ga_solution /\ best = ga_solution)
    /\ phase = "done" =>
           /\ best_solution = best
           /\ final_fitness = Some(calculate_fitness(Get(best_solution))[1])
           /\ Get(final_fitness) = best_fitness

\* C9 witness: a finished run of two GA generations that SA improved
SAImprovedGAResult ==
    /\ phase = "done" /\ Len(ga_history) = 2
    /\ Get(final_fitness) < Get(initial_fitness)
    /\ best_solution # ga_solution

\* the temperature of the k-th batch
RECURSIVE BatchTemperature(_)
BatchTemperature(k) ==
    IF k = 1 THEN sa_params.initial_temp
    ELSE (BatchTemperature(k - 1) * sa_params.cooling_rate) \div 1000

\* the callbacks received so far are the ones of the steps made so far
CallbackLogsMatch ==
    /\ Len(ga_cb_log) = Len(ga_history)
    /\ \A k \in DOMAIN ga_cb_log :
          /\ ga_cb_log[k].gen = k - 1
          /\ ga_cb_log[k].total = ga_params.generations
          /\ ga_cb_log[k].fitness = ga_history[k]
    /\ \A k \in DOMAIN sa_cb_log :
          /\ sa_cb_log[k].progress \in 0..1000
          /\ sa_cb_log[k].temperature = BatchTemperature(k)
    /\ phase \in {"sa", "done"} =>
          /\ total_iterations = Len(sa_cb_log) * sa_params.iterations + batch_i
          /\ Len(sa_history) = total_iterations + 1
    /\ phase = "done" => batch_i = 0

\* a log grows by one call at a time
GrowsByOne(old, new) ==
    \/ new = old
    \/ Len(new) = Len(old) + 1 /\ SubSeq(new, 1, Len(old)) = old

\* C10: ga_cb is called once per evaluated generation, in increasing order of gen
\* (as many calls as history entries); sa_cb is called once per cooling step, with the
\* temperature of the batch and a progress in [0, 1]; no ga_cb call follows an sa_cb call.
CallbacksOncePerStep ==
    [][/\ CallbackLogsMatch'
       /\ GrowsByOne(ga_cb_log, ga_cb_log') /\ GrowsByOne(sa_cb_log, sa_cb_log')
       /\ sa_cb_log # <<>> => ga_cb_log' = ga_cb_log
       /\ Len(sa_cb_log') > Len(sa_cb_log) => (phase = "sa" /\ ga_cb_log' = ga_cb_log)]_vars

\* C10 witness: a finished run with two GA callbacks and two SA callbacks, the first
\* at half of the estimated progress and the second at all of it
TwoCallbacksEach ==
    /\ phase = "done"
    /\ Len(ga_cb_log) = 2 /\ Len(sa_cb_log) = 2
    /\ sa_cb_log[1].progress = 500 /\ sa_cb_log[2].progress = 1000
    /\ sa_cb_log[2].temperature < sa_cb_log[1].temperature


\* the operator call recorded, if it is a call of op
Called(op) == op_call # None /\ Get(op_call).op = op

\* C11: with crossover_rate = 0 crossover returns (parent1, parent2) for every value of
\* the uniform draw, the draw 0.0 included.
ZeroRateCrossoverCopies ==
    (Called("crossover") /\ Get(op_call).rate = 0) =>
        Get(op_result) = <<Get(op_call).parent1, Get(op_call).parent2>>

\* C12: crossover introduces no gene: at every position the children carry the
\* parents' two genes, in either order, and both children have the parents' length.
CrossoverKeepsGenes ==
    Called("crossover") =>
        LET p1 == Get(op_call).parent1
            p2 == Get(op_call).parent2
            c1 == Get(op_result)[1]
            c2 == Get(op_result)[2]
        IN /\ Len(c1) = Len(p1) /\ Len(c2) = Len(p1)
           /\ \A i \in DOMAIN p1 :
                 <<c1[i], c2[i]>> \in {<<p1[i], p2[i]>>, <<p2[i], p1[i]>>}

\* C12 witness: a crossover at rate 1 whose first child is neither parent
CrossoverMixed ==
    /\ Called("crossover") /\ Get(op_call).rate = 1000
    /\ Get(op_result)[1] \notin {Get(op_call).parent1, Get(op_call).parent2}
    /\ Get(op_result)[2] \notin {Get(op_call).parent1, Get(op_call).parent2}

\* C13: with mutation_rate = 0 mutate returns its input, whatever the draws.
ZeroRateMutateIsIdentity ==
    (Called("mutate") /\ Get(op_call).rate = 0) =>
        Get(op_result) = Get(op_call).chromosome

\* C13 witness: a mutate at rate 0 whose uniform draws are all 0.0 and whose drawn
\* slots all differ from the genes' slots
ZeroRateMutateOnZeroDraws ==
    /\ Called("mutate") /\ Get(op_call).rate = 0
    /\ Len(Get(op_call).chromosome) = 2
    /\ \A i \in DOMAIN Get(op_call).draws :
          /\ Get(op_call).draws[i].u = 0
          /\ Get(op_call).draws[i].type = "both"
          /\ Get(op_call).draws[i].slot # Get(op_call).chromosome[i][1]


\* C14: optimize called with 0 < initial_temp < 0.1 evaluates no neighbor, fires no
\* callback and returns a solution equal to the initial one, its history holding the
\* initial fitness only.
BelowStopTempNoMoves ==
    (sa_params.initial_temp > 0 /\ sa_params.initial_temp < 100
     /\ phase \in {"sa", "done"}) =>
        /\ total_iterations = 0 /\ sa_cb_log = <<>>
        /\ current = ga_solution /\ best = ga_solution
        /\ sa_history = <<calculate_fitness(Get(ga_solution))[1]>>
        /\ phase = "done" => best_solution = ga_solution

\* C14 witness: a run at initial_temp 0.05 with two iterations per temperature has
\* finished on a solution of non-zero fitness
FrozenRunDone ==
    /\ phase = "done" /\ sa_params.initial_temp = 50 /\ sa_params.iterations = 2
    /\ Len(Get(best_solution)) = 1 /\ sa_history[1] > 0


\* a generation step of evolve that built the next population
GenerationStep == phase = "ga" /\ phase' = "ga" /\ gen' = gen + 1

\* p and q hold the same individuals with the same multiplicities
SameIndividuals(p, q) ==
    /\ Len(p) = Len(q)
    /\ \A i \in DOMAIN p :
          Cardinality({j \in DOMAIN p : p[j] = p[i]}) = Cardinality({j \in DOMAIN q : q[j] = p[i]})

\* h[t+1] <= h[t] for every pair of consecutive entries
NonIncreasing(h) == \A t \in 1..(Len(h) - 1) : h[t + 1] <= h[t]

\* C15: with elitism = pop_size a generation step keeps the individuals of the
\* population, with their multiplicities, and the best fitness of a generation never
\* increases.
FullElitismKeepsPopulation ==
    [][ga_params.elitism = ga_params.population_size =>
           /\ GenerationStep => SameIndividuals(population, population')
           /\ NonIncreasing(ga_history')]_vars

\* C15 witness: two generations of a population of two distinct individuals of
\* different fitness, all of it elite
FullEliteTwoGenerations ==
    /\ phase = "ga" /\ ga_params.elitism = 2 /\ ga_params.population_size = 2
    /\ gen = 2 /\ Len(ga_history) = 2
    /\ calculate_fitness(population[1])[1] < calculate_fitness(population[2])[1]

\* C16: with elitism >= 1 the history of the GA is non-increasing.
ElitistHistoryNonIncreasing ==
    ga_params.elitism >= 1 => NonIncreasing(ga_history)

\* C16 witness: an elite of one in a population of two, the second generation better
\* than the first
ElitistHistoryImproved ==
    /\ ga_params.elitism = 1 /\ ga_params.population_size = 2
    /\ Len(ga_history) = 2 /\ ga_history[2] < ga_history[1]

\* the step in which evolve returns: the GA phase is left, and not by the ValueError
\* of an evaluation
EvolveReturns == phase = "ga" /\ phase' # "ga" /\ error' # "ValueError"

\* C18: once a generation has best fitness 0 no population is built and no generation
\* is evaluated after it, so a 0 is the last entry of the history, at index g + 1; when
\* evolve returns without a 0 in its history, the history has one entry per generation
\* asked for.
EarlyStopEndsEvolve ==
    [][/\ \A t \in DOMAIN ga_history' : ga_history'[t] = 0 => t = Len(ga_history')
       /\ (phase = "ga" /\ ga_history # <<>> /\ ga_history[Len(ga_history)] = 0) =>
              /\ ga_history' = ga_history
              /\ population' \in {population, <<>>}
              /\ phase' # "ga" => Len(ga_history) = gen + 1
       /\ (EvolveReturns /\ \A t \in DOMAIN ga_history : ga_history[t] # 0) =>
              Len(ga_history') = ga_params.generations]_vars

\* C18 witness: evolve has returned after stopping at its second generation, with a
\* generation left
StoppedAtSecondGeneration ==
    /\ phase \in {"sa", "done"} /\ ga_params.generations > 2
    /\ Len(ga_history) = 2 /\ ga_history[1] > 0 /\ ga_history[2] = 0

\* C19: for 0 <= E < P the first E individuals of the next population are the E
\* individuals of lowest fitness of the current one, in ascending order of fitness,
\* equal fitnesses in index order, unchanged.
ElitePrefixOfNextPopulation ==
    [][(GenerationStep /\ ga_params.elitism >= 0
        /\ ga_params.elitism < ga_params.population_size) =>
           LET f == [i \in DOMAIN population |-> calculate_fitness(population[i])[1]]
               Before(j, i) == f[j] < f[i] \/ (f[j] = f[i] /\ j < i)
               Rank(i) == Cardinality({j \in DOMAIN population : Before(j, i)})
           IN \A k \in 1..ga_params.elitism :
                 \E i \in DOMAIN population :
                    Rank(i) = k - 1 /\ population'[k] = population[i]]_vars

\* C19 witness: after a generation step on a population of three with an elite of
\* two, the two elite individuals differ in fitness and the best comes first
EliteOfTwoCarried ==
    /\ phase = "ga" /\ gen = 1
    /\ ga_params.population_size = 3 /\ ga_params.elitism = 2
    /\ population[1] = Get(best_ever)
    /\ calculate_fitness(population[1])[1] < calculate_fitness(population[2])[1]

\* C20: for P >= 1 and 0 <= E <= P the population has exactly P individuals at the
\* start of every generation, the initial one and every replacement.
PopulationSizeKept ==
    (phase = "ga" /\ ga_params.population_size >= 1
     /\ ga_params.elitism >= 0 /\ ga_params.elitism <= ga_params.population_size) =>
        Len(population) = ga_params.population_size

\* C20 witness: a replacement population with P - E odd, its last individual the
\* first child of a pair
OddRemainderReplaced ==
    /\ phase = "ga" /\ gen >= 1
    /\ ga_params.population_size - ga_params.elitism = 1
    /\ ga_params.population_size >= 2
    /\ Len(population) = ga_params.population_size
    /\ population[Len(population)] # population[1]


\* C17: get_metrics returns no metrics before a run has completed; after it,
\* final_fitness is the fitness of best_solution and improvement_pct is
\* (initial_fitness - final_fitness) / initial_fitness * 100 when initial_fitness > 0
\* and 0 otherwise.
MetricsReportImprovement ==
    [][(metrics = None /\ metrics' # None) =>
          IF phase # "done" THEN Get(metrics') = None
          ELSE LET m       == Get(Get(metrics'))
                   initial == Get(initial_fitness)
                   final   == calculate_fitness(Get(best_solution))[1]
               IN /\ m.final_fitness = final
                  /\ m.initial_fitness = initial
                  /\ IF initial > 0
                     THEN m.improvement_pct[1] * initial
                              = (initial - final) * 100 * m.improvement_pct[2]
                     ELSE m.improvement_pct[1] = 0]_vars

-----------------------------------------------------------------------------
(* The rules of the evaluator, one by one, on the chromosome of Evaluate.        *)

\* sum over the buckets key[i], i in idx, of max(0, count - 1)
DoubleBookings(key, idx) ==
    LET keys == {key[i] : i \in idx}
    IN SumOf([k \in keys |-> Max(0, Cardinality({i \in idx : key[i] = k}) - 1)], keys)

\* the group names the assignment rows involve
NamedGroups ==
    UNION {{data.assignments[r].involved_groups[j] :
               j \in DOMAIN data.assignments[r].involved_groups} : r \in DOMAIN data.assignments}

\* C24: H1, H2 and H3 are the sums over the (teacher, slot), (slot, room) and
\* (group, slot) buckets of max(0, count - 1); a session without teacher is in no H1
\* bucket and a session without group (its assignment row involves none) in no H3 bucket.
DoubleBookingCounts ==
    eval_analysis # None =>
        LET c == Get(eval_chromosome)
            a == Get(eval_analysis)
            taught  == {i \in DOMAIN c : sessions[i].teacher_id # ""}
            grouped == {i \in DOMAIN c : sessions[i].group_name \in NamedGroups}
        IN /\ a.h1_teacher = DoubleBookings([i \in DOMAIN c |->
                                                <<sessions[i].teacher_id, c[i][1]>>], taught)
           /\ a.h2_room = DoubleBookings([i \in DOMAIN c |-> c[i]], DOMAIN c)
           /\ a.h3_group = DoubleBookings([i \in DOMAIN c |->
                                              <<sessions[i].group_name, c[i][1]>>], grouped)

\* the size of a session's group, 30 when the group table does not hold it
SizeOf(i) ==
    IF \E g \in DOMAIN data.groups : data.groups[g].group_name = sessions[i].group_name
    THEN group_size_map[sessions[i].group_name] ELSE 30

\* C25: H4 counts the sessions whose group size (30 for a group the table does not
\* hold) exceeds the capacity of the assigned room, H5 the Cours sessions of more than
\* 100 students outside an Amphitheater; the course of 200 students gives H4 = H5 = 1
\* in the 50-seat classroom and H4 = H5 = 0 in the 400-seat amphitheater.
CapacityAndTypeCounts ==
    eval_analysis # None =>
        LET c == Get(eval_chromosome)
            a == Get(eval_analysis)
            room(i) == CHOOSE r \in {rooms[j] : j \in DOMAIN rooms} : r.room_id = c[i][2]
        IN /\ a.h4_capacity = Cardinality({i \in DOMAIN c : SizeOf(i) > room(i).capacity})
           /\ a.h5_room_type =
                 Cardinality({i \in DOMAIN c : /\ sessions[i].session_type = "Cours"
                                               /\ SizeOf(i) > 100
                                               /\ room(i).type # "Amphitheater"})
           /\ data = EvalLarge =>
                 /\ c[1][2] = "R1" => a.h4_capacity = 1 /\ a.h5_room_type = 1
                 /\ c[1][2] = "A1" => a.h4_capacity = 0 /\ a.h5_room_type = 0

\* C25 witness: the course of 200 students evaluated in the 50-seat classroom
LargeCourseInClassroom ==
    /\ data = EvalLarge /\ eval_analysis # None
    /\ Get(eval_chromosome)[1][2] = "R1"
    /\ Get(eval_analysis).h4_capacity = 1 /\ Get(eval_analysis).h5_room_type = 1

\* position (from 0) of the start time of a slot in the sorted distinct start times
slot_time_index(slot) ==
    LET ts == TimeSlots(data.slot_penalties)
    IN (CHOOSE k \in DOMAIN ts : ts[k] = SlotById(slot).start_time) - 1

\* sum over the (entity, day) buckets with more than one session of
\* (max - min + 1) - count, over slot_time_index
GapsOver(c, entity) ==
    LET key(i)  == <<entity[i], SlotById(c[i][1]).day>>
        keys    == {key(i) : i \in DOMAIN c}
        in(k)   == {i \in DOMAIN c : key(i) = k}
        idx(k)  == SortSet({slot_time_index(c[i][1]) : i \in in(k)})
    IN SumOf([k \in keys |-> IF Cardinality(in(k)) > 1
                             THEN (SeqMax(idx(k)) - SeqMin(idx(k)) + 1) - Cardinality(in(k))
                             ELSE 0], keys)

\* C26: S1 is the sum over the (group, day) and (teacher, day) buckets with more than
\* one session of (max - min + 1) - count over slot_time_index, for every slot grid.
GapsOverTimeIndex ==
    eval_analysis # None =>
        LET c == Get(eval_chromosome)
        IN Get(eval_analysis).s1_gaps =
              GapsOver(c, [i \in DOMAIN c |-> sessions[i].group_name])
              + GapsOver(c, [i \in DOMAIN c |-> sessions[i].teacher_id])

\* the six per-weekday session counts of a chromosome
WeekdayCounts(c) ==
    [d \in 1..6 |-> Cardinality({i \in DOMAIN c : SlotById(c[i][1]).day = d})]

\* C27: S3 is the population variance of the six per-weekday session counts (days
\* without session count 0, divisor 6; in FitDen-ths: 6 * sum(x^2) - sum(x)^2), and it
\* is 0 exactly when the six counts are equal.
LoadBalanceOverSixDays ==
    eval_analysis # None =>
        LET n  == WeekdayCounts(Get(eval_chromosome))
            s1 == SumSeq(n)
            s2 == SumSeq([d \in 1..6 |-> n[d] * n[d]])
        IN /\ Get(eval_analysis).s3_balance * 36 = (6 * s2 - s1 * s1) * FitDen
           /\ Get(eval_analysis).s3_balance = 0 <=> \A d \in 1..6 : n[d] = n[1]

-----------------------------------------------------------------------------
(* The greedy producer.                                                          *)

\* the room the rule of least usage gives session i of chromosome c: the candidates are
\* the rooms that hold the group, or every room when none does; the least used by the
\* sessions before i wins, the first of the catalog among equals
LeastUsedCandidate(c, i) ==
    LET usage(r)   == Cardinality({j \in 1..(i - 1) : c[j][2] = r})
        fits(k)    == rooms[k].capacity >= GroupSize(sessions[i].group_name)
        candidates == IF \E k \in DOMAIN rooms : fits(k)
                      THEN {k \in DOMAIN rooms : fits(k)} ELSE DOMAIN rooms
        k == CHOOSE x \in candidates :
                 /\ \A y \in candidates : usage(rooms[x].room_id) <= usage(rooms[y].room_id)
                 /\ \A y \in candidates :
                        usage(rooms[y].room_id) = usage(rooms[x].room_id) => x <= y
    IN rooms[k].room_id

\* C28: every session of a greedy chromosome gets the least used candidate room, the
\* first of the catalog among equals, the candidates being the rooms that hold the
\* group or, when none does, all rooms (the greedy chromosomes are the second half of
\* the initial population).
GreedyTakesLeastUsedRoom ==
    (phase = "ga" /\ gen = 0) =>
        \A k \in (Max(HalfPop(ga_params.population_size), 0) + 1)..Len(population) :
            \A i \in DOMAIN population[k] :
                population[k][i][2] = LeastUsedCandidate(population[k], i)

-----------------------------------------------------------------------------
(* The annealing loop, on the observed moves.                                    *)

\* u < exp(-delta / t) for a sampled draw u (thousandths), delta > 0 in FitDen-ths and
\* t in thousandths: u = 0, or delta / t < -ln(u), with -ln(0.5) = 0.6931.. and
\* -ln(0.999) = 0.0010005..
DrawBelowExp(u, delta, t) ==
    \/ u = 0
    \/ u = 500 /\ delta <= (6932 * FitDen * t - 1) \div 10000000
    \/ u = 999 /\ delta <= (11 * FitDen * t - 1) \div 10000000

\* C21: a neighbor with delta < 0 or delta = 0 becomes current whatever the draw; a
\* neighbor with delta > 0 becomes current only if u < exp(-delta / max(T, 0.001)); a
\* rejected neighbor leaves current and current_fitness as they were.
AcceptanceRule ==
    Called("sa_move") =>
        LET m     == Get(op_call)
            delta == m.neighbor_fitness - m.current_fitness
            took  == current = Some(m.neighbor) /\ current_fitness = m.neighbor_fitness
            kept  == current = Some(m.current) /\ current_fitness = m.current_fitness
        IN /\ took \/ kept
           /\ delta <= 0 => took
           /\ (delta > 0 /\ took) => DrawBelowExp(m.u, delta, Max(m.temperature, 1))

\* C21 witness: a worse neighbor accepted
UphillAccepted ==
    /\ Called("sa_move")
    /\ Get(op_call).neighbor_fitness > Get(op_call).current_fitness
    /\ current = Some(Get(op_call).neighbor)

\* C22: best_fitness starts as the initial fitness and after every move is the minimum
\* of its former value and the fitness of the neighbor just evaluated, accepted or not:
\* the minimum of the initial fitness and of every neighbor evaluated so far.
BestIsMinOfEvaluated ==
    [][/\ (phase = "ga" /\ phase' = "sa") => best_fitness' = Get(initial_fitness')
       /\ (phase = "sa" /\ total_iterations' = total_iterations + 1) =>
             best_fitness' = Min(best_fitness, Get(op_call').neighbor_fitness)]_vars

\* C22 witness: a second neighbor, worse than the best, rejected after the first one
\* improved on the initial fitness
RejectedAboveBest ==
    /\ Called("sa_move") /\ Get(op_call).move = 2
    /\ current # Some(Get(op_call).neighbor)
    /\ best_fitness < Get(initial_fitness)
    /\ Get(op_call).neighbor_fitness > best_fitness

\* the least n with a * num^n <= b * den^n, counted from n  (num < den)
RECURSIVE LeastCooling(_, _, _, _, _)
LeastCooling(a, b, num, den, n) ==
    IF a <= b THEN n ELSE LeastCooling(a * num, b * den, num, den, n + 1)

\* the number of cooling steps of the configuration: the least n with T0 * a^n <= 0.1
CoolingSteps ==
    LeastCooling(sa_params.initial_temp, 100, RateNum(sa_params.cooling_rate),
                 RateDen(sa_params.cooling_rate), 0)

\* C23: for T0 > 0.1, 0 < a < 1 and I >= 1 a call of optimize that returns has cooled
\* exactly n times, n the least integer with T0 * a^n <= 0.1, and made exactly n * I
\* moves; the temperature changes only by T <- a * T after a complete batch of I moves,
\* and no move is made at a temperature <= 0.1.
CoolingSchedule ==
    [][(/\ phase = "sa" /\ sa_params.initial_temp > 100 /\ sa_params.iterations >= 1
        /\ sa_params.cooling_rate > 0 /\ sa_params.cooling_rate < 1000) =>
           /\ temperature' # temperature =>
                 /\ batch_i = sa_params.iterations /\ batch_i' = 0
                 /\ temperature' * 1000 = temperature * sa_params.cooling_rate
                 /\ total_iterations' = total_iterations
           /\ total_iterations' # total_iterations =>
                 temperature > 100 /\ temperature' = temperature
           /\ phase' = "done" =>
                 /\ total_iterations = CoolingSteps * sa_params.iterations
                 /\ Len(sa_cb_log) = CoolingSteps
                 /\ \A k \in DOMAIN sa_cb_log :
                       k < Len(sa_cb_log) =>
                          sa_cb_log[k + 1].temperature * 1000
                             = sa_cb_log[k].temperature * sa_params.cooling_rate]_vars

\* C23 witness: a returned call of two temperature levels of two moves each
TwoLevelsOfTwoMoves ==
    /\ phase = "done" /\ sa_params.iterations = 2
    /\ CoolingSteps = 2 /\ total_iterations = 4 /\ Len(sa_cb_log) = 2

\* C30: in optimize best_fitness <= current_fitness, best_fitness is the minimum of the
\* history so far, whose first entry is the fitness of the GA result and whose length
\* is 1 + the number of moves; initial_fitness is the minimum of ga_history and, once
\* the run is done, final_fitness <= initial_fitness.
SAFitnessBookkeeping ==
    phase \in {"sa", "done"} =>
        /\ best_fitness <= current_fitness
        /\ best_fitness = SeqMin(sa_history)
        /\ sa_history[1] = calculate_fitness(Get(ga_solution))[1]
        /\ Len(sa_history) = 1 + total_iterations
        /\ initial_fitness = Some(SeqMin(ga_history))
        /\ phase = "done" => Get(final_fitness) <= Get(initial_fitness)

\* C30 witness: a run whose second generation improved, finished on a current solution
\* worse than the best
DoneAboveBest ==
    /\ phase = "done" /\ Len(ga_history) = 2 /\ ga_history[2] < ga_history[1]
    /\ best_fitness < current_fitness /\ total_iterations >= 1

-----------------------------------------------------------------------------
(* The operators and the lists they are given.                                   *)

\* C29: crossover, mutate, tournament_selection, get_neighbor and calculate_fitness
\* leave every list they are given (the chromosomes, the population list), and every
\* other list that exists when they are called, with the items it had.
ArgumentsUntouched ==
    op_call # None =>
        LET before == Get(op_call).heap
            after  == Get(op_result).heap
        IN /\ Len(after) >= Len(before)
           /\ \A ref \in DOMAIN before : after[ref] = before[ref]

\* C29 witness: mutate returned a chromosome that differs from the one it was given
MutateChangedItsCopy ==
    /\ Called("mutate")
    /\ LET arg == Get(op_call).args[1]
           res == Get(op_result).result[1]
       IN /\ res # arg
          /\ Get(op_result).heap[res] # Get(op_call).heap[arg]
          /\ Get(op_result).heap[arg] = Get(op_call).heap[arg]

=============================================================================
